---- MODULE Spec2Model ----
(***************************************************************************)
(* Behavioural model of the pdf-manager front end:                         *)
(*   - AuthService / AuthProvider: the client-held session                 *)
(*     (services/authService.ts, contexts/AuthContext.tsx)                 *)
(*   - PDFServiceImpl: the request/response contract of the operations     *)
(*     (services/pdfService.ts) and its callers, the Dashboard and Home    *)
(*     pages                                                               *)
(***************************************************************************)
EXTENDS Integers, Sequences, FiniteSets, TLC

(***************************************************************************)
(* Bounds of the model                                                     *)
(***************************************************************************)
\* number of login() calls that may be in flight at the same time
MaxLogins == 1
\* number of times the wall clock is advanced in one behaviour
MaxTicks == 2
\* number of handler runs (pdfService calls) that may be in flight at once
MaxRuns == 2
\* number of files in a list handed to merge
MaxFiles == 2
\* number of operations in the list of the edit dialog
MaxEditOps == 1
\* number of events (user actions and answers) a page is followed through
MaxEvents == 5
\* number of matches in the results handed to PlagiarismResults
MaxMatches == 2
\* number of pages of a document handed to PDFViewer
MaxPages == 3
\* number of files dropped on the merge zone at once
MaxDropped == 3

(***************************************************************************)
(* Values                                                                  *)
(***************************************************************************)
None == "none"
Undefined == "undefined"
\* what a call returns: null, a thrown error, or a record of the value
Null == [null |-> TRUE]
Thrown == [throw |-> TRUE]
Logins == 1..MaxLogins
Runs == 1..MaxRuns
\* access tokens the server may issue, users /auth/me may return
Tokens == {"tokA", "tokB"}
Users == {"alice", "bob"}

\* import.meta.env.VITE_TOKEN_KEY / VITE_TOKEN_EXPIRY: not set in the build
VITE_TOKEN_KEY == Undefined
VITE_TOKEN_EXPIRY == Undefined

\* a || b of JavaScript for the values used here
OrElse(a, b) == IF a = Undefined THEN b ELSE a

DefaultTokenKey == "pdf_manager_auth_token"
DefaultTokenExpiry == 86400
TOKEN_KEY == OrElse(VITE_TOKEN_KEY, DefaultTokenKey)
\* seconds to milliseconds
SESSION_DURATION == OrElse(VITE_TOKEN_EXPIRY, DefaultTokenExpiry) * 1000

(***************************************************************************)
(* Text: strings whose characters matter are sequences of characters       *)
(***************************************************************************)
\* MIME types, as texts: 'application/pdf', ...
Mime ==
    [ pdf |-> <<"a", "p", "p", "l", "i", "c", "a", "t", "i", "o", "n", "/",
          "p", "d", "f">>,
      bzpdf |-> <<"a", "p", "p", "l", "i", "c", "a", "t", "i", "o", "n", "/",
          "x", "-", "b", "z", "p", "d", "f">>,
      docx |-> <<"a", "p", "p", "l", "i", "c", "a", "t", "i", "o", "n", "/",
          "v", "n", "d", ".", "o", "p", "e", "n", "x", "m", "l", "f", "o",
          "r", "m", "a", "t", "s", "-", "o", "f", "f", "i", "c", "e", "d",
          "o", "c", "u", "m", "e", "n", "t", ".", "w", "o", "r", "d", "p",
          "r", "o", "c", "e", "s", "s", "i", "n", "g", "m", "l", ".", "d",
          "o", "c", "u", "m", "e", "n", "t">>,
      html |-> <<"t", "e", "x", "t", "/", "h", "t", "m", "l">>,
      appHtml |-> <<"a", "p", "p", "l", "i", "c", "a", "t", "i", "o", "n",
          "/", "h", "t", "m", "l">>,
      doc |-> <<"a", "p", "p", "l", "i", "c", "a", "t", "i", "o", "n", "/",
          "m", "s", "w", "o", "r", "d">>,
      xlsx |-> <<"a", "p", "p", "l", "i", "c", "a", "t", "i", "o", "n", "/",
          "v", "n", "d", ".", "o", "p", "e", "n", "x", "m", "l", "f", "o",
          "r", "m", "a", "t", "s", "-", "o", "f", "f", "i", "c", "e", "d",
          "o", "c", "u", "m", "e", "n", "t", ".", "s", "p", "r", "e", "a",
          "d", "s", "h", "e", "e", "t", "m", "l", ".", "s", "h", "e", "e",
          "t">>,
      xls |-> <<"a", "p", "p", "l", "i", "c", "a", "t", "i", "o", "n", "/",
          "v", "n", "d", ".", "m", "s", "-", "e", "x", "c", "e", "l">>,
      pptx |-> <<"a", "p", "p", "l", "i", "c", "a", "t", "i", "o", "n", "/",
          "v", "n", "d", ".", "o", "p", "e", "n", "x", "m", "l", "f", "o",
          "r", "m", "a", "t", "s", "-", "o", "f", "f", "i", "c", "e", "d",
          "o", "c", "u", "m", "e", "n", "t", ".", "p", "r", "e", "s", "e",
          "n", "t", "a", "t", "i", "o", "n", "m", "l", ".", "p", "r", "e",
          "s", "e", "n", "t", "a", "t", "i", "o", "n">>,
      ppt |-> <<"a", "p", "p", "l", "i", "c", "a", "t", "i", "o", "n", "/",
          "v", "n", "d", ".", "m", "s", "-", "p", "o", "w", "e", "r", "p",
          "o", "i", "n", "t">>,
      txt |-> <<"t", "e", "x", "t", "/", "p", "l", "a", "i", "n">>,
      htm |-> <<"t", "e", "x", "t", "/", "h", "t", "m">>,
      jpeg |-> <<"i", "m", "a", "g", "e", "/", "j", "p", "e", "g">>,
      png |-> <<"i", "m", "a", "g", "e", "/", "p", "n", "g">>,
      tiff |-> <<"i", "m", "a", "g", "e", "/", "t", "i", "f", "f">>,
      gif |-> <<"i", "m", "a", "g", "e", "/", "g", "i", "f">>,
      json |-> <<"a", "p", "p", "l", "i", "c", "a", "t", "i", "o", "n", "/",
          "j", "s", "o", "n">>,
      jsonUtf8 |-> <<"a", "p", "p", "l", "i", "c", "a", "t", "i", "o", "n",
          "/", "j", "s", "o", "n", ";", " ", "c", "h", "a", "r", "s", "e",
          "t", "=", "u", "t", "f", "-", "8">>,
      octet |-> <<"a", "p", "p", "l", "i", "c", "a", "t", "i", "o", "n", "/",
          "o", "c", "t", "e", "t", "-", "s", "t", "r", "e", "a", "m">> ]

\* file name extensions: '.docx', ...
Ext ==
    [ docx |-> <<".", "d", "o", "c", "x">>,
      doc |-> <<".", "d", "o", "c">>,
      xlsx |-> <<".", "x", "l", "s", "x">>,
      xls |-> <<".", "x", "l", "s">>,
      pptx |-> <<".", "p", "p", "t", "x">>,
      ppt |-> <<".", "p", "p", "t">>,
      txt |-> <<".", "t", "x", "t">>,
      jpg |-> <<".", "j", "p", "g">>,
      jpeg |-> <<".", "j", "p", "e", "g">>,
      png |-> <<".", "p", "n", "g">>,
      tiff |-> <<".", "t", "i", "f", "f">>,
      html |-> <<".", "h", "t", "m", "l">>,
      htm |-> <<".", "h", "t", "m">> ]

\* export formats: 'docx', ...
Fmt ==
    [ docx |-> <<"d", "o", "c", "x">>,
      xlsx |-> <<"x", "l", "s", "x">>,
      txt |-> <<"t", "x", "t">>,
      html |-> <<"h", "t", "m", "l">>,
      png |-> <<"p", "n", "g">>,
      jpg |-> <<"j", "p", "g">>,
      jpeg |-> <<"j", "p", "e", "g">>,
      PNG |-> <<"P", "N", "G">> ]

\* file names: 'a.pdf', ...
Name ==
    [ pdfA |-> <<"a", ".", "p", "d", "f">>,
      pdfB |-> <<"b", ".", "p", "d", "f">>,
      docx |-> <<"c", ".", "d", "o", "c", "x">>,
      htm |-> <<"p", "a", "g", "e", ".", "h", "t", "m">>,
      gif |-> <<"e", ".", "g", "i", "f">>,
      scan |-> <<"s", "c", "a", "n", ".", "d", "o", "c", "x">>,
      bzpdf |-> <<"a", ".", "p", "d", "f", ".", "b", "z", "2">> ]

\* 'pdf'
TextPdf ==
    <<"p", "d", "f">>
UpperCase ==
    <<"A", "B", "C", "D", "E", "F", "G", "H", "I", "J", "K", "L", "M", "N",
      "O", "P", "Q", "R", "S", "T", "U", "V", "W", "X", "Y", "Z">>
LowerCase ==
    <<"a", "b", "c", "d", "e", "f", "g", "h", "i", "j", "k", "l", "m", "n",
      "o", "p", "q", "r", "s", "t", "u", "v", "w", "x", "y", "z">>

\* String.prototype.includes
Includes(s, sub) ==
    \E i \in 0..(Len(s) - Len(sub)) :
        \A j \in 1..Len(sub) : s[i + j] = sub[j]

\* String.prototype.endsWith
EndsWith(s, suffix) ==
    /\ Len(s) >= Len(suffix)
    /\ \A j \in 1..Len(suffix) : s[Len(s) - Len(suffix) + j] = suffix[j]

\* String.prototype.toLowerCase
ToLowerChar(c) ==
    IF \E i \in 1..Len(UpperCase) : UpperCase[i] = c
    THEN LowerCase[CHOOSE i \in 1..Len(UpperCase) : UpperCase[i] = c]
    ELSE c

ToLowerCase(s) == [i \in 1..Len(s) |-> ToLowerChar(s[i])]


\* steps by which the clock advances: one millisecond, one session duration
TickSizes == {1, SESSION_DURATION}

VARIABLES
    now,            \* new Date().getTime(), milliseconds
    ticks,          \* number of clock advances so far
    localStorage,   \* window.localStorage: key -> string
    headers,        \* axiosInstance.defaults.headers.common: name -> value
    inflight,       \* HTTP requests sent and not yet answered
    lpc,            \* per login() call: position in AuthService.login
    ltoken,         \* per login() call: the access_token it was issued
    stale,          \* per login() call: a logout() ran while it was in flight
    ctxUser,        \* AuthProvider: user state
    lastOp,         \* the operation that completed last and what it returned
    page,           \* the caller of pdfService that is mounted
    run,            \* per handler run: what it captured, while it awaits
    lastCall,       \* the pdfService call that settled in the last step
    lastRun,        \* the handler run that completed in the last step
    selectedFile,       \* Dashboard / Home state: the file picked, or null
    selectedFiles,      \* Dashboard state: the files picked for merging
    currentAction,      \* Dashboard state
    isProcessing,       \* Dashboard / Home state
    error,              \* Dashboard / Home state: message, or null
    success,            \* Dashboard / Home state: message, or null
    openDialogs,        \* the dialogs whose is...Open state is true
    compressionLevel,   \* Dashboard state
    exportFormat,       \* Dashboard state
    editOperations,     \* Dashboard state: the types of the operations
    plagiarismResults,  \* Dashboard state: response, or null
    events,             \* number of events the page has handled
    results,            \* PlagiarismResults: the results prop
    expandedItems,      \* PlagiarismResults state: indices, in click order
    viewerFile,         \* PDFViewer: the file prop
    loadTask,           \* PDFViewer: Document is loading the file prop
    numPages,           \* PDFViewer state: 0 stands for null
    pageNumber,         \* PDFViewer state
    loading             \* PDFViewer state

authVars == <<now, ticks, localStorage, headers, lpc, ltoken, stale,
              ctxUser, lastOp>>

\* the variables of AuthService that the answer to a request leaves alone
loginVars == <<now, ticks, lpc, ltoken, stale, ctxUser, lastOp>>

uiVars == <<page, run, lastCall, lastRun, selectedFile, selectedFiles,
            currentAction, isProcessing, error, success, openDialogs,
            compressionLevel, exportFormat, editOperations, plagiarismResults,
            events>>

\* the state of the components that are rendered on their own
compVars == <<results, expandedItems, viewerFile, loadTask, numPages,
              pageNumber, loading>>

vars == <<now, ticks, localStorage, headers, inflight, lpc, ltoken, stale,
          ctxUser, lastOp, page, run, lastCall, lastRun, selectedFile,
          selectedFiles, currentAction, isProcessing, error, success,
          openDialogs, compressionLevel, exportFormat, editOperations,
          plagiarismResults, events, results, expandedItems, viewerFile,
          loadTask, numPages, pageNumber, loading>>

\* PlagiarismResults and PDFViewer are not rendered
NotMounted ==
    /\ results = Null
    /\ expandedItems = <<>>
    /\ viewerFile = 0
    /\ loadTask = FALSE
    /\ numPages = 0
    /\ pageNumber = 1
    /\ loading = TRUE

(***************************************************************************)
(* Storage, headers, JSON                                                  *)
(***************************************************************************)
EmptyMap == [k \in {} |-> None]

\* Storage.setItem / property assignment
SetItem(m, key, value) ==
    [k \in (DOMAIN m) \cup {key} |-> IF k = key THEN value ELSE m[k]]

\* Storage.removeItem / delete
RemoveItem(m, key) == [k \in (DOMAIN m) \ {key} |-> m[k]]

\* Storage.getItem: null when the key is absent
GetItem(m, key) == IF key \in DOMAIN m THEN m[key] ELSE <<>>

\* JSON.stringify of a SessionData object: the members in insertion order
JSONstringify(s) ==
    << <<"token", s.token>>, <<"expiryTime", s.expiryTime>>, <<"user", s.user>> >>

\* JSON.parse of such a text: the value of the member called name
Member(text, name) ==
    LET idx == {i \in DOMAIN text : text[i][1] = name}
    IN  IF idx = {} THEN Undefined ELSE text[CHOOSE i \in idx : TRUE][2]

JSONparse(text) ==
    [token |-> Member(text, "token"),
     expiryTime |-> Member(text, "expiryTime"),
     user |-> Member(text, "user")]

\* `Bearer ${token}`
Bearer(token) == <<"Bearer", token>>

(***************************************************************************)
(* AuthService                                                             *)
(***************************************************************************)
\* setSession with the session duration left out of the expiry
setSession_noDuration(token, user) ==
    LET sessionData == [token |-> token, expiryTime |-> now, user |-> user]
    IN  /\ localStorage' = SetItem(localStorage, TOKEN_KEY, JSONstringify(sessionData))
        /\ headers' = SetItem(headers, "Authorization", Bearer(token))

\* setSession without the assignment of the Authorization header
setSession_noHeader(token, user) ==
    LET expiryTime == now + SESSION_DURATION
        sessionData == [token |-> token, expiryTime |-> expiryTime, user |-> user]
    IN  /\ localStorage' = SetItem(localStorage, TOKEN_KEY, JSONstringify(sessionData))
        /\ headers' = headers

\* AuthService.setSession(token, user)
setSession(token, user) ==
    LET expiryTime == now + SESSION_DURATION
        sessionData == [token |-> token, expiryTime |-> expiryTime, user |-> user]
    IN  /\ localStorage' = SetItem(localStorage, TOKEN_KEY, JSONstringify(sessionData))
        /\ headers' = SetItem(headers, "Authorization", Bearer(token))

\* clearSession without the delete of the Authorization header
clearSession_keepsHeader ==
    /\ localStorage' = RemoveItem(localStorage, TOKEN_KEY)
    /\ headers' = headers

\* AuthService.clearSession()
clearSession ==
    /\ localStorage' = RemoveItem(localStorage, TOKEN_KEY)
    /\ headers' = RemoveItem(headers, "Authorization")

\* the expiry test with >= in place of >
Expired_ge(time, expiryTime) == time >= expiryTime

\* the expiry test of getSession: new Date().getTime() > expiryTime
Expired(time, expiryTime) == time > expiryTime

\* AuthService.getSession(): the value it returns
getSessionResult ==
    LET sessionData == GetItem(localStorage, TOKEN_KEY)
    IN  IF TOKEN_KEY \notin DOMAIN localStorage THEN Null
        ELSE LET s == JSONparse(sessionData)
             IN  IF Expired(now, s.expiryTime) THEN Null
                 ELSE [token |-> s.token, user |-> s.user]

\* getSession without the refresh of the stored expiry
getSessionEffect_noRefresh ==
    LET sessionData == GetItem(localStorage, TOKEN_KEY)
    IN  IF TOKEN_KEY \notin DOMAIN localStorage
        THEN UNCHANGED <<localStorage, headers>>
        ELSE LET s == JSONparse(sessionData)
             IN  IF Expired(now, s.expiryTime)
                 THEN clearSession
                 ELSE UNCHANGED <<localStorage, headers>>

\* AuthService.getSession(): its effect on storage and headers
getSessionEffect ==
    LET sessionData == GetItem(localStorage, TOKEN_KEY)
    IN  IF TOKEN_KEY \notin DOMAIN localStorage
        THEN UNCHANGED <<localStorage, headers>>
        ELSE LET s == JSONparse(sessionData)
             IN  IF Expired(now, s.expiryTime)
                 THEN clearSession
                 ELSE setSession(s.token, s.user)

\* a call of authService.getSession()
GetSession ==
    /\ getSessionEffect
    /\ lastOp' = [op |-> "getSession", id |-> 0, ret |-> getSessionResult]
    /\ UNCHANGED <<now, ticks, inflight, lpc, ltoken, stale, ctxUser>>
    /\ UNCHANGED uiVars
    /\ UNCHANGED compVars

\* a call of authService.isAuthenticated(): !!this.getSession()
IsAuthenticated ==
    /\ getSessionEffect
    /\ lastOp' = [op |-> "isAuthenticated", id |-> 0, ret |-> [value |-> getSessionResult # Null]]
    /\ UNCHANGED <<now, ticks, inflight, lpc, ltoken, stale, ctxUser>>
    /\ UNCHANGED uiVars
    /\ UNCHANGED compVars

InFlight(p) == lpc[p] \in {"token", "me"}

\* AuthProvider.login -> AuthService.login: POST /api/v1/auth/token is sent
LoginCall(p) ==
    /\ ~InFlight(p)
    /\ lpc' = [lpc EXCEPT ![p] = "token"]
    /\ inflight' = inflight \cup
         {[id |-> p, method |-> "POST", url |-> "/api/v1/auth/token",
           authorization |-> GetItem(headers, "Authorization")]}
    /\ lastOp' = [op |-> "loginCall", id |-> p, ret |-> Null]
    /\ UNCHANGED <<now, ticks, localStorage, headers, ltoken, stale, ctxUser>>
    /\ UNCHANGED uiVars
    /\ UNCHANGED compVars

TokenRequest(p) ==
    {r \in inflight : r.id = p /\ r.url = "/api/v1/auth/token"}

MeRequest(p) ==
    {r \in inflight : r.id = p /\ r.url = "/api/v1/auth/me"}

\* the token exchange succeeds: validateToken(token) sends GET /api/v1/auth/me
TokenIssued(p) ==
    /\ lpc[p] = "token"
    /\ \E token \in Tokens :
         /\ ltoken' = [ltoken EXCEPT ![p] = token]
         /\ inflight' = (inflight \ TokenRequest(p)) \cup
              {[id |-> p, method |-> "GET", url |-> "/api/v1/auth/me",
                authorization |-> Bearer(token)]}
    /\ lpc' = [lpc EXCEPT ![p] = "me"]
    /\ lastOp' = [op |-> "tokenIssued", id |-> p, ret |-> Null]
    /\ UNCHANGED <<now, ticks, localStorage, headers, stale, ctxUser>>
    /\ UNCHANGED uiVars
    /\ UNCHANGED compVars

\* a failed token exchange that also clears the session
TokenRefused_clears(p) ==
    /\ lpc[p] = "token"
    /\ clearSession
    /\ inflight' = inflight \ TokenRequest(p)
    /\ lpc' = [lpc EXCEPT ![p] = "idle"]
    /\ stale' = [stale EXCEPT ![p] = FALSE]
    /\ lastOp' = [op |-> "loginFailed", id |-> p, ret |-> Thrown]
    /\ UNCHANGED <<now, ticks, ltoken, ctxUser>>
    /\ UNCHANGED uiVars
    /\ UNCHANGED compVars

\* the token exchange fails: login rethrows, AuthProvider.login rethrows
TokenRefused(p) ==
    /\ lpc[p] = "token"
    /\ inflight' = inflight \ TokenRequest(p)
    /\ lpc' = [lpc EXCEPT ![p] = "idle"]
    /\ stale' = [stale EXCEPT ![p] = FALSE]
    /\ lastOp' = [op |-> "loginFailed", id |-> p, ret |-> Thrown]
    /\ UNCHANGED <<now, ticks, localStorage, headers, ltoken, ctxUser>>
    /\ UNCHANGED uiVars
    /\ UNCHANGED compVars

\* /auth/me succeeds: setSession, login returns, AuthProvider sets the user
MeSucceeded(p) ==
    /\ lpc[p] = "me"
    /\ \E user \in Users :
         /\ setSession(ltoken[p], user)
         /\ ctxUser' = user
         /\ lastOp' = [op |-> "login", id |-> p,
                       ret |-> [token |-> ltoken[p], user |-> user]]
    /\ inflight' = inflight \ MeRequest(p)
    /\ lpc' = [lpc EXCEPT ![p] = "idle"]
    /\ ltoken' = [ltoken EXCEPT ![p] = None]
    /\ stale' = [stale EXCEPT ![p] = FALSE]
    /\ UNCHANGED <<now, ticks>>
    /\ UNCHANGED uiVars
    /\ UNCHANGED compVars

\* /auth/me fails: validateToken clears the session and rethrows
MeFailed(p) ==
    /\ lpc[p] = "me"
    /\ clearSession
    /\ inflight' = inflight \ MeRequest(p)
    /\ lpc' = [lpc EXCEPT ![p] = "idle"]
    /\ ltoken' = [ltoken EXCEPT ![p] = None]
    /\ stale' = [stale EXCEPT ![p] = FALSE]
    /\ lastOp' = [op |-> "validateFailed", id |-> p, ret |-> Thrown]
    /\ UNCHANGED <<now, ticks, ctxUser>>
    /\ UNCHANGED uiVars
    /\ UNCHANGED compVars

\* AuthProvider.logout -> AuthService.logout
Logout ==
    /\ clearSession
    /\ ctxUser' = None
    /\ stale' = [p \in Logins |-> stale[p] \/ InFlight(p)]
    /\ lastOp' = [op |-> "logout", id |-> 0, ret |-> Null]
    /\ UNCHANGED <<now, ticks, inflight, lpc, ltoken>>
    /\ UNCHANGED uiVars
    /\ UNCHANGED compVars

\* time passes
Tick ==
    /\ ticks < MaxTicks
    /\ \E d \in TickSizes : now' = now + d
    /\ ticks' = ticks + 1
    /\ lastOp' = [op |-> "tick", id |-> 0, ret |-> Null]
    /\ UNCHANGED <<localStorage, headers, inflight, lpc, ltoken, stale, ctxUser>>
    /\ UNCHANGED uiVars
    /\ UNCHANGED compVars

AuthInit ==
    /\ now = 0
    /\ ticks = 0
    /\ localStorage = EmptyMap
    /\ headers = EmptyMap
    /\ inflight = {}
    /\ lpc = [p \in Logins |-> "idle"]
    /\ ltoken = [p \in Logins |-> None]
    /\ stale = [p \in Logins |-> FALSE]
    /\ ctxUser = None
    /\ lastOp = [op |-> "init", id |-> 0, ret |-> Null]
    /\ page = "login"
    /\ run = [r \in Runs |-> Null]
    /\ lastCall = Null
    /\ lastRun = Null
    /\ selectedFile = None
    /\ selectedFiles = <<>>
    /\ currentAction = None
    /\ isProcessing = FALSE
    /\ error = Null
    /\ success = Null
    /\ openDialogs = {}
    /\ compressionLevel = 2
    /\ exportFormat = <<>>
    /\ editOperations = <<>>
    /\ plagiarismResults = Null
    /\ events = 0
    /\ NotMounted

AuthNext ==
    \/ GetSession
    \/ IsAuthenticated
    \/ Logout
    \/ Tick
    \/ \E p \in Logins : LoginCall(p)
    \/ \E p \in Logins : TokenIssued(p)
    \/ \E p \in Logins : TokenRefused(p)
    \/ \E p \in Logins : MeSucceeded(p)
    \/ \E p \in Logins : MeFailed(p)

SpecAuth == AuthInit /\ [][AuthNext]_vars

(***************************************************************************)
(* Files and messages                                                      *)
(***************************************************************************)
\* File objects the user can pick; a PDF, a second PDF, a Word document,
\* an HTML page the browser gave no type, an image of an unsupported type,
\* a PDF named scan.docx, a bzip2 archive of a PDF (application/x-bzpdf)
PdfFiles == {"pdfA", "pdfB"}
Files == PdfFiles \cup {"docx", "htm", "gif", "scan", "bzpdf"}

\* File.type
FileType(f) ==
    CASE f \in PdfFiles \cup {"scan", "pdfC"} -> Mime.pdf
      [] f = "docx" -> Mime.docx
      [] f = "htm" -> <<>>
      [] f = "gif" -> Mime.gif
      [] f = "bzpdf" -> Mime.bzpdf

\* File.name
FileName(f) ==
    CASE f = "pdfA" -> Name.pdfA
      [] f = "pdfB" -> Name.pdfB
      [] f = "docx" -> Name.docx
      [] f = "htm" -> Name.htm
      [] f = "gif" -> Name.gif
      [] f = "scan" -> Name.scan
      [] f = "bzpdf" -> Name.bzpdf

\* an Error message; arg is the text interpolated into it
Msg(text) == [text |-> text, arg |-> <<>>]
MsgWith(text, arg) == [text |-> text, arg |-> arg]

\* file.type when file is null
TypeErrorMessage == Msg("Cannot read properties of null (reading 'type')")
\* JSON.parse of a text that is not JSON
SyntaxErrorMessage == Msg("Unexpected token < in JSON at position 0")
InvalidFileType == Msg("Invalid file type. Please select a PDF file.")
MergeTooFew == Msg("At least two PDF files are required for merging")
AlreadyPdf ==
    Msg("File is already a PDF. Please select a different format to convert.")
UnsupportedFormat(format) ==
    MsgWith("Unsupported format: ${format}. Supported formats are: xlsx, txt, html, png, jpg, jpeg",
            format)

(***************************************************************************)
(* PDFServiceImpl                                                          *)
(***************************************************************************)
\* CompressionLevel
LOW == 1
MEDIUM == 2
HIGH == 3
MAXIMUM == 4

Ops == {"compress", "merge", "edit", "preview", "checkPlagiarism",
        "convert", "export"}

\* the operations that sniff the content type of the response
SniffingOps == {"compress", "merge", "preview", "convert", "export"}

\* PDFServiceImpl.API_PREFIX and the path of each operation
Url(op) ==
    CASE op = "compress" -> "/api/v1/pdf/compress"
      [] op = "merge" -> "/api/v1/pdf/merge"
      [] op = "edit" -> "/api/v1/pdf/edit"
      [] op = "preview" -> "/api/v1/pdf/preview"
      [] op = "checkPlagiarism" -> "/api/v1/pdf/check-plagiarism"
      [] op = "convert" -> "/api/v1/pdf/convert"
      [] op = "export" -> "/api/v1/pdf/export"

\* the message each operation falls back to
DefaultMessage(op) ==
    CASE op = "compress" -> "Failed to compress PDF"
      [] op = "merge" -> "Failed to merge PDFs"
      [] op = "preview" -> "Failed to preview PDF"
      [] op = "convert" -> "Failed to convert file to PDF"
      [] op = "export" -> "Failed to export PDF"
      [] OTHER -> ""

\* export: supportedFormats
supportedFormats == <<Fmt.xlsx, Fmt.txt, Fmt.html, Fmt.png, Fmt.jpg, Fmt.jpeg>>

\* Array.prototype.includes
ArrayIncludes(arr, x) == \E i \in 1..Len(arr) : arr[i] = x

\* arguments of a call: a.file, a.files, a.level, a.format, a.operations
Args(file, files, level, format, operations) ==
    [file |-> file, files |-> files, level |-> level, format |-> format,
     operations |-> operations]

\* the checks with a merge that asks for one file only
Precheck_mergeOne(op, a) ==
    CASE op = "compress" ->
            IF a.file = None THEN TypeErrorMessage
            ELSE IF ~Includes(FileType(a.file), TextPdf) THEN InvalidFileType
            ELSE Null
      [] op = "merge" ->
            IF Len(a.files) < 1 THEN MergeTooFew ELSE Null
      [] op = "convert" ->
            IF a.file = None THEN TypeErrorMessage
            ELSE IF FileType(a.file) = Mime.pdf THEN AlreadyPdf
            ELSE Null
      [] op = "export" ->
            IF a.file = None THEN TypeErrorMessage
            ELSE IF ~Includes(FileType(a.file), TextPdf) THEN InvalidFileType
            ELSE IF ~ArrayIncludes(supportedFormats, ToLowerCase(a.format))
                 THEN UnsupportedFormat(a.format)
            ELSE Null
      [] OTHER -> Null

\* the checks an operation makes before it sends its request: the message
\* of the Error it throws, or Null when it goes on to send
Precheck(op, a) ==
    CASE op = "compress" ->
            IF a.file = None THEN TypeErrorMessage
            ELSE IF ~Includes(FileType(a.file), TextPdf) THEN InvalidFileType
            ELSE Null
      [] op = "merge" ->
            IF Len(a.files) < 2 THEN MergeTooFew ELSE Null
      [] op = "convert" ->
            IF a.file = None THEN TypeErrorMessage
            ELSE IF FileType(a.file) = Mime.pdf THEN AlreadyPdf
            ELSE Null
      [] op = "export" ->
            IF a.file = None THEN TypeErrorMessage
            ELSE IF ~Includes(FileType(a.file), TextPdf) THEN InvalidFileType
            ELSE IF ~ArrayIncludes(supportedFormats, ToLowerCase(a.format))
                 THEN UnsupportedFormat(a.format)
            ELSE Null
      [] OTHER -> Null

\* the FormData with the format appended as the caller gave it
FormDataOf_asGiven(op, a) ==
    CASE op = "compress" ->
            [names |-> {"file", "compression_level"},
             files |-> <<a.file>>, compression_level |-> a.level,
             format |-> <<>>, operations |-> <<>>,
             merge_order |-> Undefined]
      [] op = "merge" ->
            [names |-> {"files"},
             files |-> a.files, compression_level |-> 0,
             format |-> <<>>, operations |-> <<>>,
             merge_order |-> Undefined]
      [] op \in {"edit", "preview"} ->
            [names |-> {"file", "operations"},
             files |-> <<a.file>>, compression_level |-> 0,
             format |-> <<>>, operations |-> a.operations,
             merge_order |-> Undefined]
      [] op \in {"checkPlagiarism", "convert"} ->
            [names |-> {"file"},
             files |-> <<a.file>>, compression_level |-> 0,
             format |-> <<>>, operations |-> <<>>,
             merge_order |-> Undefined]
      [] op = "export" ->
            [names |-> {"file", "format"},
             files |-> <<a.file>>, compression_level |-> 0,
             format |-> a.format, operations |-> <<>>,
             merge_order |-> Undefined]

\* the FormData an operation posts: the names of its entries and their
\* values; merge_order is Undefined when no such entry is appended
FormDataOf(op, a) ==
    CASE op = "compress" ->
            [names |-> {"file", "compression_level"},
             files |-> <<a.file>>, compression_level |-> a.level,
             format |-> <<>>, operations |-> <<>>,
             merge_order |-> Undefined]
      [] op = "merge" ->
            [names |-> {"files"},
             files |-> a.files, compression_level |-> 0,
             format |-> <<>>, operations |-> <<>>,
             merge_order |-> Undefined]
      [] op \in {"edit", "preview"} ->
            [names |-> {"file", "operations"},
             files |-> <<a.file>>, compression_level |-> 0,
             format |-> <<>>, operations |-> a.operations,
             merge_order |-> Undefined]
      [] op \in {"checkPlagiarism", "convert"} ->
            [names |-> {"file"},
             files |-> <<a.file>>, compression_level |-> 0,
             format |-> <<>>, operations |-> <<>>,
             merge_order |-> Undefined]
      [] op = "export" ->
            [names |-> {"file", "format"},
             files |-> <<a.file>>, compression_level |-> 0,
             format |-> ToLowerCase(a.format), operations |-> <<>>,
             merge_order |-> Undefined]

\* the request an operation sends
RequestOf(r, op, a) ==
    [id |-> r, method |-> "POST", url |-> Url(op), data |-> FormDataOf(op, a),
     responseType |-> IF op = "checkPlagiarism" THEN "json" ELSE "blob"]

\* detail texts a JSON error body may carry; "" is an empty or missing detail
Details == {"", "Invalid request"}
ErrorStatuses == {400, 401}

\* what the transport may deliver for a request: a 2xx response (binary, or
\* JSON {detail}), an error status with a JSON {detail} body or with an HTML
\* body, or no response at all
Response(kind, status, contentType, isBlob, json, detail) ==
    [kind |-> kind, status |-> status, contentType |-> contentType,
     isBlob |-> isBlob, json |-> json, detail |-> detail]

BinaryResponses ==
    {Response("ok", 200, ct, TRUE, FALSE, "") : ct \in {Mime.pdf, <<>>}}

JsonResponses ==
    {Response("ok", 200, ct, TRUE, TRUE, d) :
        ct \in {Mime.json, Mime.jsonUtf8}, d \in Details}

ErrorResponses ==
    {Response("error", st, Mime.json, b, TRUE, d) :
        st \in ErrorStatuses, b \in BOOLEAN, d \in Details}
    \cup {Response("error", 502, Mime.html, TRUE, FALSE, "")}

NetworkError == Response("network", 0, <<>>, FALSE, FALSE, "")

ServerResponses ==
    BinaryResponses \cup JsonResponses \cup ErrorResponses \cup {NetworkError}

\* the answers taken for the requests of the pages: a PDF, a JSON body with
\* a detail under 200, under 400 and under 401, and no answer
PageResponses ==
    {resp \in ServerResponses :
        \/ resp.kind = "network"
        \/ resp.kind = "ok" /\ resp.contentType = Mime.pdf
        \/ /\ resp.contentType = Mime.json /\ resp.isBlob /\ resp.detail # ""
           /\ resp.status \in {200, 400, 401}}

(***************************************************************************)
(* The server and the axios instance (services/axiosInstance.ts), as the   *)
(* specification describes them                                            *)
(***************************************************************************)
\* the compression levels the validation layer lets through
ServerLevels == LOW..MAXIMUM

\* Upload/Validation layer: the parameters of the request are in range
ServerAccepts(req) ==
    /\ req.url = Url("compress") => req.data.compression_level \in ServerLevels
    /\ (req.url = Url("merge") /\ req.data.merge_order # Undefined)
       => \A i \in 1..Len(req.data.merge_order) :
             req.data.merge_order[i] \in 0..(Len(req.data.files) - 1)

\* the answers a request may get: none, a 401 of the session guard, a 400,
\* and any other answer only when the validation layer lets the request
\* through
ServerAnswers(req) ==
    {resp \in ServerResponses :
        \/ resp.kind = "network"
        \/ resp.kind = "error" /\ resp.status \in {400, 401}
        \/ ServerAccepts(req)}

\* an authentication error: the token is missing, expired or invalid
Unauthorized(resp) == resp.kind = "error" /\ resp.status = 401

\* the response interceptor: an authentication error clears the session and
\* sends the user to the login page; any other answer passes through
ResponseInterceptor(resp) ==
    IF Unauthorized(resp)
    THEN clearSession /\ page' = "login"
    ELSE UNCHANGED <<localStorage, headers, page>>

\* the body wrapped in a new Blob of type application/pdf
DataOf_retyped(resp) ==
    [isBlob |-> TRUE, json |-> resp.json, detail |-> resp.detail,
     contentType |-> Mime.pdf]

\* response.data: the whole body as it was received
DataOf(resp) ==
    [isBlob |-> resp.isBlob, json |-> resp.json, detail |-> resp.detail,
     contentType |-> resp.contentType]

\* AxiosError.message
AxiosMessage(resp) ==
    CASE resp.kind = "network" -> "Network Error"
      [] resp.status = 400 -> "Request failed with status code 400"
      [] resp.status = 401 -> "Request failed with status code 401"
      [] OTHER -> "Request failed with status code 502"

Resolved(value) == [kind |-> "resolved", value |-> value, error |-> Null]
Rejected(message) == [kind |-> "rejected", value |-> Null, error |-> message]

\* x || y on texts
TextOr(x, y) == IF x = "" THEN y ELSE x

\* text() and JSON.parse of a body, then throw new Error(detail || default):
\* the message of what is thrown
ThrowParsed(op, resp) ==
    IF resp.json THEN Msg(TextOr(resp.detail, DefaultMessage(op)))
    ELSE SyntaxErrorMessage

\* the try/catch around the parsing of a Blob error body: the catch block
\* receives whatever the try block threw and throws the default message
ParseErrorBlob(op, resp) ==
    LET e == ThrowParsed(op, resp)
    IN  Msg(DefaultMessage(op))

\* a catch block that throws the default message whatever the error was
CatchRequestError_default(op, resp) == Rejected(Msg(DefaultMessage(op)))

\* the catch block of a sniffing operation, for an error of the request
CatchRequestError(op, resp) ==
    IF resp.kind = "error" /\ resp.isBlob
    THEN Rejected(ParseErrorBlob(op, resp))
    ELSE Rejected(Msg(TextOr(IF resp.kind = "error" THEN resp.detail ELSE "",
                             TextOr(AxiosMessage(resp), DefaultMessage(op)))))

\* the catch block of a sniffing operation, for the Error its own try block
\* threw: it carries no response
CatchThrown(op, message) ==
    Rejected(Msg(TextOr(message.text, DefaultMessage(op))))

\* contentType && contentType.includes('application/json')
IsJsonContentType(contentType) ==
    contentType # <<>> /\ Includes(contentType, Mime.json)

\* compress, merge, preview, convert, export after the request is answered
SettleSniffing(op, resp) ==
    IF resp.kind = "ok"
    THEN IF IsJsonContentType(resp.contentType)
         THEN CatchThrown(op, ThrowParsed(op, resp))
         ELSE Resolved(DataOf(resp))
    ELSE CatchRequestError(op, resp)

\* edit, checkPlagiarism after the request is answered: return response.data
\* or rethrow the error
SettlePlain(op, resp) ==
    IF resp.kind = "ok"
    THEN Resolved(DataOf(resp))
    ELSE Rejected(Msg(AxiosMessage(resp)))

\* the outcome of an operation whose request got the answer resp
Settle(op, resp) ==
    IF op \in SniffingOps THEN SettleSniffing(op, resp) ELSE SettlePlain(op, resp)

\* the record of a call that has settled
Call(op, a, sent, resp, outcome) ==
    [op |-> op, args |-> a, sent |-> sent, response |-> resp,
     outcome |-> outcome]

\* a call that its own checks reject
CallRejectedEarly(op, a) == Call(op, a, FALSE, Null, Rejected(Precheck(op, a)))

\* a call whose request was answered
CallAnswered(op, a, resp) == Call(op, a, TRUE, resp, Settle(op, resp))

(***************************************************************************)
(* Dashboard (pages/Dashboard.tsx)                                         *)
(***************************************************************************)
\* the marks with one more mark past MAXIMUM
compressionMarks_past == LOW..(MAXIMUM + 1)

\* compressionMarks: the values of the marks of the slider
compressionMarks == {LOW, MEDIUM, HIGH, MAXIMUM}

\* the service cards of pdfServices
CardActions == {"compress", "edit", "plagiarism", "export", "view"}

\* the formats offered by the export dialog
ExportOptions == {Fmt.docx, Fmt.xlsx, Fmt.txt, Fmt.html, Fmt.png, Fmt.jpg}

\* the types of edit operation the edit dialog can add
EditTypes == {"text", "highlight", "delete"}

\* what the user is taken to enter: the file dropped or picked where one file
\* is taken, the file dropped on the convert drop zone, the slider position,
\* the export format, the operation added
SingleFiles == Files \ {"pdfB", "scan", "bzpdf"}
ConvertDrops == SingleFiles \cup {"scan"}
SliderInputs == {MEDIUM, HIGH, MAXIMUM + 1}
FormatInputs == {Fmt.docx, Fmt.xlsx}
EditInputs == {"text"}

\* keys of SUPPORTED_FORMATS
SUPPORTED_FORMATS ==
    {Mime.docx, Mime.doc, Mime.xlsx, Mime.xls, Mime.pptx, Mime.ppt, Mime.txt,
     Mime.html, Mime.appHtml, Mime.htm, Mime.jpeg, Mime.png, Mime.tiff}

\* the dialogs that handleProcessFile closes when it finishes
ProcessDialogs == {"compression", "edit", "export", "convert"}

NoFileSelected == Msg("No file selected")
SelectAtLeastTwo == Msg("Please select at least 2 PDF files to merge")
InvalidAction == Msg("Invalid action")
FailedToProcess == "Failed to process PDF"
CannotConvertPdf ==
    Msg("PDF files cannot be converted. Please select a supported format like DOCX, DOC, XLSX, etc.")
NotSupportedType(type) ==
    MsgWith("File type ${file.type} is not supported. Please select a supported file type.",
            type)

\* no Dialog covers the page
PageEnabled ==
    /\ page = "dashboard"
    /\ openDialogs = {}
    /\ plagiarismResults = Null

\* the dialog d is open and no other Dialog covers it
DialogEnabled(d) ==
    /\ page = "dashboard"
    /\ d \in openDialogs
    /\ plagiarismResults = Null

\* the promise of a new run takes the first free place
FreeRun(r) == run[r] = Null /\ \A q \in 1..(r - 1) : run[q] # Null

\* non-empty lists of PDF files of at most n files
PdfLists(n) == UNION {[1..k -> PdfFiles] : k \in 1..n}

\* one more event is handled
Step == events < MaxEvents /\ events' = events + 1 /\ UNCHANGED compVars

\* what an event that starts no run and completes none leaves alone
NoRunEvent ==
    /\ Step
    /\ lastCall' = Null
    /\ lastRun' = Null
    /\ UNCHANGED <<run, inflight, page>>
    /\ UNCHANGED authVars

\* onDrop of the main drop zone: the PDF files react-dropzone accepted;
\* several files only while multiple is set, that is currentAction = 'merge'
DropMain ==
    /\ PageEnabled
    /\ \E acceptedFiles \in PdfLists(MaxFiles) :
         /\ Len(acceptedFiles) > 1 => currentAction = "merge"
         /\ IF Len(acceptedFiles) > 1
            THEN /\ selectedFiles' = acceptedFiles
                 /\ currentAction' = "merge"
                 /\ UNCHANGED selectedFile
            ELSE /\ acceptedFiles[1] \in SingleFiles
                 /\ selectedFile' = acceptedFiles[1]
                 /\ UNCHANGED <<selectedFiles, currentAction>>
    /\ success' = Msg("File(s) uploaded successfully")
    /\ UNCHANGED <<isProcessing, error, openDialogs, compressionLevel,
                   exportFormat, editOperations, plagiarismResults>>
    /\ NoRunEvent

\* onDrop of the merge drop zone
DropMerge ==
    /\ PageEnabled
    /\ \E acceptedFiles \in PdfLists(MaxFiles) :
         /\ Len(selectedFiles) + Len(acceptedFiles) <= MaxFiles
         /\ selectedFiles' = selectedFiles \o acceptedFiles
    /\ currentAction' = "merge"
    /\ success' = Msg("Added ${acceptedFiles.length} file(s) for merging")
    /\ UNCHANGED <<selectedFile, isProcessing, error, openDialogs,
                   compressionLevel, exportFormat, editOperations,
                   plagiarismResults>>
    /\ NoRunEvent

\* the convert drop zone takes the file for conversion
ConvertAccepts(file) ==
    \/ FileType(file) = Mime.html
    \/ FileType(file) = Mime.appHtml
    \/ EndsWith(FileName(file), Ext.html)
    \/ EndsWith(FileName(file), Ext.htm)
    \/ FileType(file) \in SUPPORTED_FORMATS

\* the convert drop zone refuses a file of type application/pdf
ConvertRefusesPdf(file) == FileType(file) = Mime.pdf

\* onDrop of the convert drop zone with the file in acceptedFiles
DropConvertFile(file) ==
    /\ PageEnabled
    /\ IF ConvertRefusesPdf(file)
       THEN /\ error' = CannotConvertPdf
            /\ UNCHANGED <<selectedFile, currentAction, success>>
       ELSE IF ConvertAccepts(file)
       THEN /\ selectedFile' = file
            /\ currentAction' = "convert"
            /\ success' = Msg("Selected ${file.name} for conversion to PDF")
            /\ UNCHANGED error
       ELSE /\ error' = NotSupportedType(FileType(file))
            /\ UNCHANGED <<selectedFile, currentAction, success>>
    /\ UNCHANGED <<selectedFiles, isProcessing, openDialogs, compressionLevel,
                   exportFormat, editOperations, plagiarismResults>>
    /\ NoRunEvent

\* the accept option of the convert drop zone: MIME types and extensions
convertAcceptTypes ==
    {Mime.docx, Mime.doc, Mime.xlsx, Mime.xls, Mime.pptx, Mime.ppt, Mime.txt,
     Mime.html, Mime.appHtml, Mime.jpeg, Mime.png, Mime.tiff}
convertAcceptExtensions ==
    {Ext.docx, Ext.doc, Ext.xlsx, Ext.xls, Ext.pptx, Ext.ppt, Ext.txt, Ext.html,
     Ext.htm, Ext.jpg, Ext.jpeg, Ext.png, Ext.tiff}

\* useDropzone puts a dropped file in acceptedFiles when its type is one of
\* the accepted types or its name ends with one of the accepted extensions
ConvertZoneAccepts(file) ==
    \/ ToLowerCase(FileType(file)) \in convertAcceptTypes
    \/ \E e \in convertAcceptExtensions :
          EndsWith(ToLowerCase(FileName(file)), e)

\* the files the convert drop zone puts in acceptedFiles
ConvertZoneAccepted == {file \in ConvertDrops : ConvertZoneAccepts(file)}

\* the file is dropped on the convert drop zone: onDrop gets it in
\* acceptedFiles, or gets an empty acceptedFiles and does nothing
DropOnConvertZone(file) ==
    IF file \in ConvertZoneAccepted
    THEN DropConvertFile(file)
    ELSE /\ PageEnabled
         /\ UNCHANGED <<selectedFile, selectedFiles, currentAction,
                        isProcessing, error, success, openDialogs,
                        compressionLevel, exportFormat, editOperations,
                        plagiarismResults>>
         /\ NoRunEvent

DropConvert == \E file \in ConvertDrops : DropOnConvertZone(file)

\* handleFileSelect, called by the file picker with the file chosen
PickerSelect ==
    /\ DialogEnabled("picker")
    /\ \E file \in SingleFiles :
         IF currentAction = "merge"
         THEN selectedFiles' = <<file>> /\ UNCHANGED selectedFile
         ELSE selectedFile' = file /\ UNCHANGED selectedFiles
    /\ openDialogs' = openDialogs \ {"picker"}
    /\ UNCHANGED <<currentAction, isProcessing, error, success,
                   compressionLevel, exportFormat, editOperations,
                   plagiarismResults>>
    /\ NoRunEvent

\* Cancel or onClose of the dialog d
CloseDialog(d) ==
    /\ DialogEnabled(d)
    /\ openDialogs' = openDialogs \ {d}
    /\ editOperations' = IF d = "edit" THEN <<>> ELSE editOperations
    /\ UNCHANGED <<selectedFile, selectedFiles, currentAction, isProcessing,
                   error, success, compressionLevel, exportFormat,
                   plagiarismResults>>
    /\ NoRunEvent

\* handleCompressionLevelChange: the slider stops at the marks only
ChangeCompressionLevel ==
    /\ DialogEnabled("compression")
    /\ \E value \in (compressionMarks \cap SliderInputs) \ {compressionLevel} :
         compressionLevel' = value
    /\ UNCHANGED <<selectedFile, selectedFiles, currentAction, isProcessing,
                   error, success, openDialogs, exportFormat, editOperations,
                   plagiarismResults>>
    /\ NoRunEvent

\* a format button of the export dialog
ChooseExportFormat ==
    /\ DialogEnabled("export")
    /\ \E format \in (ExportOptions \cap FormatInputs) \ {exportFormat} :
         exportFormat' = format
    /\ UNCHANGED <<selectedFile, selectedFiles, currentAction, isProcessing,
                   error, success, openDialogs, compressionLevel,
                   editOperations, plagiarismResults>>
    /\ NoRunEvent

\* handleTextSave, handleHighlightSave, handleDeleteSave
AddEditOperation ==
    /\ DialogEnabled("edit")
    /\ Len(editOperations) < MaxEditOps
    /\ \E type \in EditTypes \cap EditInputs :
         editOperations' = Append(editOperations, type)
    /\ UNCHANGED <<selectedFile, selectedFiles, currentAction, isProcessing,
                   error, success, openDialogs, compressionLevel,
                   exportFormat, plagiarismResults>>
    /\ NoRunEvent

\* Array.prototype.splice(index, 1) on a copy, index counted from 0
SpliceOut(list, index) ==
    [i \in 1..(Len(list) - 1) |-> IF i <= index THEN list[i] ELSE list[i + 1]]

\* handleDeleteOperation
DeleteEditOperation ==
    /\ DialogEnabled("edit")
    /\ \E index \in 0..(Len(editOperations) - 1) :
         editOperations' = SpliceOut(editOperations, index)
    /\ UNCHANGED <<selectedFile, selectedFiles, currentAction, isProcessing,
                   error, success, openDialogs, compressionLevel,
                   exportFormat, plagiarismResults>>
    /\ NoRunEvent

\* the Remove button of the convert section
RemoveConvertFile ==
    /\ PageEnabled
    /\ selectedFile # None
    /\ currentAction = "convert"
    /\ selectedFile' = None
    /\ currentAction' = None
    /\ UNCHANGED <<selectedFiles, isProcessing, error, success, openDialogs,
                   compressionLevel, exportFormat, editOperations,
                   plagiarismResults>>
    /\ NoRunEvent

\* handleRemoveFile
RemoveFile ==
    /\ PageEnabled
    /\ \E index \in 0..(Len(selectedFiles) - 1) :
         LET newFiles == SpliceOut(selectedFiles, index)
         IN  /\ selectedFiles' = newFiles
             /\ currentAction' = IF Len(newFiles) = 0 THEN None ELSE currentAction
    /\ UNCHANGED <<selectedFile, isProcessing, error, success, openDialogs,
                   compressionLevel, exportFormat, editOperations,
                   plagiarismResults>>
    /\ NoRunEvent

\* handleClearFiles
ClearFiles ==
    /\ PageEnabled
    /\ Len(selectedFiles) > 0
    /\ selectedFiles' = <<>>
    /\ currentAction' = None
    /\ UNCHANGED <<selectedFile, isProcessing, error, success, openDialogs,
                   compressionLevel, exportFormat, editOperations,
                   plagiarismResults>>
    /\ NoRunEvent

\* splice(fromIndex, 1) then splice(toIndex, 0, movedFile), indices from 0
MoveItem(list, fromIndex, toIndex) ==
    LET movedFile == list[fromIndex + 1]
        rest == SpliceOut(list, fromIndex)
    IN  [i \in 1..Len(list) |->
            IF i <= toIndex THEN rest[i]
            ELSE IF i = toIndex + 1 THEN movedFile
            ELSE rest[i - 1]]

\* moveFile, from the up and down buttons of the file at index
MoveFile ==
    /\ PageEnabled
    /\ \E index \in 0..(Len(selectedFiles) - 1) :
         \/ /\ index # 0
            /\ selectedFiles' = MoveItem(selectedFiles, index, index - 1)
         \/ /\ index # Len(selectedFiles) - 1
            /\ selectedFiles' = MoveItem(selectedFiles, index, index + 1)
    /\ UNCHANGED <<selectedFile, currentAction, isProcessing, error, success,
                   openDialogs, compressionLevel, exportFormat, editOperations,
                   plagiarismResults>>
    /\ NoRunEvent

\* onClose of the Snackbar and of its Alert
CloseSnackbar ==
    /\ page = "dashboard"
    /\ error # Null \/ success # Null
    /\ error' = Null
    /\ success' = Null
    /\ UNCHANGED <<selectedFile, selectedFiles, currentAction, isProcessing,
                   openDialogs, compressionLevel, exportFormat, editOperations,
                   plagiarismResults>>
    /\ NoRunEvent

\* Close of the plagiarism results dialog
ClosePlagiarismResults ==
    /\ page = "dashboard"
    /\ plagiarismResults # Null
    /\ plagiarismResults' = Null
    /\ UNCHANGED <<selectedFile, selectedFiles, currentAction, isProcessing,
                   error, success, openDialogs, compressionLevel, exportFormat,
                   editOperations>>
    /\ NoRunEvent

(***************************************************************************)
(* Dashboard: handleProcessFile, handleActionClick                         *)
(***************************************************************************)
NoArgs == Args(None, <<>>, 0, <<>>, <<>>)

\* what a run of handleProcessFile does up to its await, from the state of
\* the render that created it: the Error it throws itself, or the pdfService
\* call it makes
Plan(throw, op, a) == [throw |-> throw, op |-> op, args |-> a]

ProcessPlan ==
    IF selectedFile = None /\ Len(selectedFiles) = 0
    THEN Plan(NoFileSelected, None, NoArgs)
    ELSE CASE currentAction = "compress" ->
                Plan(Null, "compress",
                     Args(selectedFile, <<>>, compressionLevel, <<>>, <<>>))
           [] currentAction = "merge" ->
                IF Len(selectedFiles) < 2
                THEN Plan(SelectAtLeastTwo, None, NoArgs)
                ELSE Plan(Null, "merge", Args(None, selectedFiles, 0, <<>>, <<>>))
           [] currentAction = "edit" ->
                Plan(Null, "edit", Args(selectedFile, <<>>, 0, <<>>, editOperations))
           [] currentAction = "plagiarism" ->
                Plan(Null, "checkPlagiarism", Args(selectedFile, <<>>, 0, <<>>, <<>>))
           [] currentAction = "convert" ->
                Plan(Null, "convert", Args(selectedFile, <<>>, 0, <<>>, <<>>))
           [] currentAction = "export" ->
                Plan(Null, "export", Args(selectedFile, <<>>, 0, exportFormat, <<>>))
           [] OTHER -> Plan(InvalidAction, None, NoArgs)

\* the message the catch block of handleProcessFile shows for an Error
ProcessErrorMessage(message) ==
    IF message.text # "" THEN message ELSE Msg(FailedToProcess)

\* a run that reaches setSuccess whatever its try block did
ProcessSuccess_always(action, outcome) ==
    IF action = "plagiarism"
    THEN Msg("Plagiarism check completed")
    ELSE Msg("File processed successfully")

\* what a run of handleProcessFile hands to setSuccess once the outcome of
\* its try block is known, Null when it does not call setSuccess
ProcessSuccess(action, outcome) ==
    IF outcome.kind = "resolved"
    THEN IF action = "plagiarism"
         THEN Msg("Plagiarism check completed")
         ELSE Msg("File processed successfully")
    ELSE Null

\* what the run hands to setError, Null when it does not call setError
ProcessError(action, outcome) ==
    IF outcome.kind = "rejected"
    THEN ProcessErrorMessage(outcome.error)
    ELSE Null

\* the number of calls of downloadBlob the run makes
ProcessDownloads(action, outcome) ==
    IF outcome.kind = "resolved" /\ action # "plagiarism" THEN 1 ELSE 0

\* downloadBlob(blob, filename): the calls it makes on URL and on the link
downloadBlob(blob) ==
    LET url == [objectURL |-> blob]
    IN  << [call |-> "createObjectURL", arg |-> blob],
           [call |-> "click", arg |-> url],
           [call |-> "revokeObjectURL", arg |-> url] >>

\* the calls on URL and on the link that the run makes
ProcessDom(action, outcome) ==
    IF outcome.kind = "resolved" /\ action # "plagiarism"
    THEN downloadBlob(outcome.value)
    ELSE <<>>

\* what the run hands to setPlagiarismResults, Null when it does not call it
ProcessResults(action, outcome) ==
    IF outcome.kind = "resolved" /\ action = "plagiarism"
    THEN outcome.value
    ELSE Null

\* the value of a state after a setter was or was not called
SetTo(value, old) == IF value # Null THEN value ELSE old

\* the notifications a run has raised
Notified(s, e) ==
    {n \in {"success"} : s # Null} \cup {n \in {"error"} : e # Null}

\* the record of a handler run that has completed
RunRecord(handler, action, notified, downloads, called) ==
    [handler |-> handler, action |-> action, notified |-> notified,
     downloads |-> downloads, called |-> called, dom |-> <<>>]

\* a run of handleProcessFile completes: the rest of the try block, the catch
\* block and the finally block, for the action the run captured
CompleteProcess(action, outcome, called) ==
    /\ success' = SetTo(ProcessSuccess(action, outcome), success)
    /\ error' = SetTo(ProcessError(action, outcome), error)
    /\ plagiarismResults' =
          SetTo(ProcessResults(action, outcome), plagiarismResults)
    /\ selectedFile' = IF action # "merge" THEN None ELSE selectedFile
    /\ openDialogs' = openDialogs \ ProcessDialogs
    /\ isProcessing' = FALSE
    /\ lastRun' = [RunRecord("process", action,
                             Notified(ProcessSuccess(action, outcome),
                                      ProcessError(action, outcome)),
                             ProcessDownloads(action, outcome), called)
                   EXCEPT !.dom = ProcessDom(action, outcome)]

\* a run of handleProcessFile up to its first await; it either ends at once
\* in the catch block or leaves a request in flight
StartProcess(r) ==
    LET plan == ProcessPlan
        early == IF plan.throw # Null THEN plan.throw
                 ELSE Precheck(plan.op, plan.args)
    IN  /\ FreeRun(r)
        /\ IF early # Null
           THEN /\ CompleteProcess(currentAction, Rejected(early),
                                   plan.throw = Null)
                /\ lastCall' = IF plan.throw # Null THEN Null
                               ELSE CallRejectedEarly(plan.op, plan.args)
                /\ UNCHANGED <<run, inflight>>
           ELSE /\ isProcessing' = TRUE
                /\ run' = [run EXCEPT ![r] =
                             [handler |-> "process", action |-> currentAction,
                              op |-> plan.op, args |-> plan.args]]
                /\ inflight' = inflight \cup {RequestOf(r, plan.op, plan.args)}
                /\ lastCall' = Null
                /\ lastRun' = Null
                /\ UNCHANGED <<error, success, plagiarismResults,
                               selectedFile, openDialogs>>
        /\ UNCHANGED page
        /\ Step
        /\ UNCHANGED authVars

\* handleActionClick(action), from the card of a service
CardClick ==
    /\ PageEnabled
    /\ \E action \in CardActions :
         /\ currentAction' = action
         /\ IF selectedFile # None
            THEN CASE action = "compress" ->
                        /\ openDialogs' = openDialogs \cup {"compression"}
                        /\ UNCHANGED <<selectedFile, isProcessing, error, success,
                                       plagiarismResults>>
                        /\ NoRunEvent
                   [] action = "edit" ->
                        /\ openDialogs' = openDialogs \cup {"edit"}
                        /\ UNCHANGED <<selectedFile, isProcessing, error, success,
                                       plagiarismResults>>
                        /\ NoRunEvent
                   [] action = "export" ->
                        /\ openDialogs' = openDialogs \cup {"export"}
                        /\ UNCHANGED <<selectedFile, isProcessing, error, success,
                                       plagiarismResults>>
                        /\ NoRunEvent
                   [] action = "view" ->
                        /\ openDialogs' = openDialogs \cup {"viewer"}
                        /\ UNCHANGED <<selectedFile, isProcessing, error, success,
                                       plagiarismResults>>
                        /\ NoRunEvent
                   [] action = "plagiarism" ->
                        \E r \in Runs : StartProcess(r)
            ELSE /\ openDialogs' = openDialogs \cup {"picker"}
                 /\ UNCHANGED <<selectedFile, isProcessing, error, success,
                                plagiarismResults>>
                 /\ NoRunEvent
    /\ UNCHANGED <<selectedFiles, compressionLevel, exportFormat,
                   editOperations>>

\* onClick={handleProcessFile} of a button that is not disabled
ProcessButton(r) ==
    /\ ~isProcessing
    /\ StartProcess(r)
    /\ UNCHANGED <<selectedFiles, currentAction, compressionLevel,
                   exportFormat, editOperations>>

\* Compress PDF in the compression dialog
ConfirmCompress(r) == DialogEnabled("compression") /\ ProcessButton(r)

\* Apply Changes in the edit dialog
ConfirmEdit(r) ==
    /\ DialogEnabled("edit")
    /\ Len(editOperations) # 0
    /\ ProcessButton(r)

\* Export in the export dialog
ConfirmExport(r) == DialogEnabled("export") /\ ProcessButton(r)

\* the button of the convert section
ConvertButton(r) ==
    /\ PageEnabled
    /\ selectedFile # None
    /\ currentAction = "convert"
    /\ ProcessButton(r)

\* the merge button is enabled
MergeEnabled == ~isProcessing /\ ~(Len(selectedFiles) < 2)

\* the button of the merge section
MergeButton(r) ==
    /\ PageEnabled
    /\ MergeEnabled
    /\ ProcessButton(r)

\* the request of a run of handleProcessFile is answered
SettleProcess(r) ==
    /\ run[r] # Null
    /\ run[r].handler = "process"
    /\ \E resp \in PageResponses \cap
                     ServerAnswers(RequestOf(r, run[r].op, run[r].args)) :
         LET call == CallAnswered(run[r].op, run[r].args, resp)
         IN  /\ lastCall' = call
             /\ CompleteProcess(run[r].action, call.outcome, TRUE)
             /\ ResponseInterceptor(resp)
    /\ run' = [run EXCEPT ![r] = Null]
    /\ inflight' = {q \in inflight : q.id # r}
    /\ UNCHANGED <<selectedFiles, currentAction, compressionLevel,
                   exportFormat, editOperations>>
    /\ Step
    /\ UNCHANGED loginVars

(***************************************************************************)
(* Home (pages/Home.tsx)                                                   *)
(***************************************************************************)
HomeActions == {"compress", "merge", "edit"}

HomeEnabled == page = "home" /\ openDialogs = {}

\* the Dashboard state that Home does not have
HomeFrame ==
    UNCHANGED <<selectedFiles, currentAction, compressionLevel, exportFormat,
                editOperations, plagiarismResults>>

\* the button that opens the file picker
HomeOpenPicker ==
    /\ HomeEnabled
    /\ openDialogs' = {"picker"}
    /\ UNCHANGED <<selectedFile, isProcessing, error, success>>
    /\ HomeFrame
    /\ NoRunEvent

\* onClose of the file picker
HomePickerClose ==
    /\ page = "home"
    /\ "picker" \in openDialogs
    /\ openDialogs' = {}
    /\ UNCHANGED <<selectedFile, isProcessing, error, success>>
    /\ HomeFrame
    /\ NoRunEvent

\* handleFileSelect, then handleUpload
HomeSelect ==
    /\ page = "home"
    /\ "picker" \in openDialogs
    /\ \E file \in SingleFiles : selectedFile' = file
    /\ success' = Msg("File uploaded successfully")
    /\ isProcessing' = FALSE
    /\ openDialogs' = {}
    /\ UNCHANGED error
    /\ HomeFrame
    /\ NoRunEvent

\* the pdfService call Home.handleAction makes
HomePlan(action) ==
    CASE action = "compress" ->
            Plan(Null, "compress", Args(selectedFile, <<>>, MEDIUM, <<>>, <<>>))
      [] action = "merge" ->
            Plan(Null, "merge", Args(None, <<selectedFile>>, 0, <<>>, <<>>))
      [] action = "edit" ->
            Plan(Null, "edit", Args(selectedFile, <<>>, 0, <<>>, <<>>))

\* handleAction(action), from a button that is not disabled
HomeAction(r) ==
    /\ HomeEnabled
    /\ selectedFile # None
    /\ ~isProcessing
    /\ FreeRun(r)
    /\ \E action \in HomeActions :
         LET plan == HomePlan(action)
             early == Precheck(plan.op, plan.args)
         IN  IF early # Null
             THEN /\ error' = early
                  /\ isProcessing' = FALSE
                  /\ lastCall' = CallRejectedEarly(plan.op, plan.args)
                  /\ lastRun' = RunRecord("home", action, {"error"}, 0, TRUE)
                  /\ UNCHANGED <<run, inflight>>
             ELSE /\ isProcessing' = TRUE
                  /\ run' = [run EXCEPT ![r] =
                               [handler |-> "home", action |-> action,
                                op |-> plan.op, args |-> plan.args]]
                  /\ inflight' = inflight \cup {RequestOf(r, plan.op, plan.args)}
                  /\ lastCall' = Null
                  /\ lastRun' = Null
                  /\ UNCHANGED error
    /\ UNCHANGED <<selectedFile, success, openDialogs, page>>
    /\ HomeFrame
    /\ Step
    /\ UNCHANGED authVars

\* the request of Home.handleAction is answered
HomeSettle(r) ==
    /\ run[r] # Null
    /\ run[r].handler = "home"
    /\ \E resp \in PageResponses \cap
                     ServerAnswers(RequestOf(r, run[r].op, run[r].args)) :
         LET call == CallAnswered(run[r].op, run[r].args, resp)
         IN  /\ lastCall' = call
             /\ ResponseInterceptor(resp)
             /\ IF call.outcome.kind = "resolved"
                THEN /\ success' = Msg("File processed successfully")
                     /\ lastRun' = RunRecord("home", run[r].action, {"success"},
                                             1, TRUE)
                     /\ UNCHANGED error
                ELSE /\ error' = call.outcome.error
                     /\ lastRun' = RunRecord("home", run[r].action, {"error"},
                                             0, TRUE)
                     /\ UNCHANGED success
    /\ isProcessing' = FALSE
    /\ run' = [run EXCEPT ![r] = Null]
    /\ inflight' = {q \in inflight : q.id # r}
    /\ UNCHANGED <<selectedFile, openDialogs>>
    /\ HomeFrame
    /\ Step
    /\ UNCHANGED loginVars

\* onClose of the error Snackbar
HomeCloseError ==
    /\ page = "home"
    /\ error # Null
    /\ error' = Null
    /\ UNCHANGED <<selectedFile, isProcessing, success, openDialogs>>
    /\ HomeFrame
    /\ NoRunEvent

\* onClose of the success Snackbar
HomeCloseSuccess ==
    /\ page = "home"
    /\ success # Null
    /\ success' = Null
    /\ UNCHANGED <<selectedFile, isProcessing, error, openDialogs>>
    /\ HomeFrame
    /\ NoRunEvent

(***************************************************************************)
(* Direct callers of pdfService (the service tests call it this way)       *)
(***************************************************************************)
\* levels a caller may pass to compress: the four of CompressionLevel, the
\* number below them and the number above them
CallLevels == (LOW - 1)..(MAXIMUM + 1)

\* formats a caller may pass to export
CallFormats == ExportOptions \cup {Fmt.jpeg, Fmt.PNG}

\* lists of PDF files of at most n files, the empty list included
FileLists(n) == {<<>>} \cup PdfLists(n)

\* the arguments a caller may pass to op
CallArgs(op) ==
    CASE op = "compress" ->
            {Args(f, <<>>, l, <<>>, <<>>) : f \in Files, l \in CallLevels}
      [] op = "merge" ->
            {Args(None, fs, 0, <<>>, <<>>) : fs \in FileLists(MaxFiles)}
      [] op \in {"edit", "preview"} ->
            {Args(f, <<>>, 0, <<>>, ops) :
                f \in Files, ops \in {<<>>} \cup {<<t>> : t \in EditTypes}}
      [] op \in {"checkPlagiarism", "convert"} ->
            {Args(f, <<>>, 0, <<>>, <<>>) : f \in Files}
      [] op = "export" ->
            {Args(f, <<>>, 0, fmt, <<>>) : f \in Files, fmt \in CallFormats}

UIFrame ==
    UNCHANGED <<selectedFile, selectedFiles, currentAction, isProcessing,
                error, success, openDialogs, compressionLevel, exportFormat,
                editOperations, plagiarismResults>>

\* pdfService.<op>(...) is called; the calls are taken one after the other
ServiceCall(r) ==
    /\ page = "api"
    /\ FreeRun(r)
    /\ \A q \in Runs : run[q] = Null
    /\ \E op \in Ops : \E a \in CallArgs(op) :
         IF Precheck(op, a) # Null
         THEN /\ lastCall' = CallRejectedEarly(op, a)
              /\ UNCHANGED <<run, inflight>>
         ELSE /\ run' = [run EXCEPT ![r] =
                           [handler |-> "api", action |-> None,
                            op |-> op, args |-> a]]
              /\ inflight' = inflight \cup {RequestOf(r, op, a)}
              /\ lastCall' = Null
    /\ lastRun' = Null
    /\ UIFrame
    /\ UNCHANGED page
    /\ Step
    /\ UNCHANGED authVars

\* the direct call with a catch block that also removes the stored session
ServiceSettle_clears(r) ==
    /\ run[r] # Null
    /\ run[r].handler = "api"
    /\ \E resp \in ServerAnswers(RequestOf(r, run[r].op, run[r].args)) :
         /\ lastCall' = CallAnswered(run[r].op, run[r].args, resp)
         /\ IF resp.kind = "ok"
            THEN ResponseInterceptor(resp)
            ELSE clearSession /\ page' = IF Unauthorized(resp) THEN "login" ELSE page
    /\ lastRun' = Null
    /\ run' = [run EXCEPT ![r] = Null]
    /\ inflight' = {q \in inflight : q.id # r}
    /\ UIFrame
    /\ Step
    /\ UNCHANGED loginVars

\* the direct call with a catch block that posts the request once more
\* when the request failed
ServiceSettle_retry(r) ==
    /\ run[r] # Null
    /\ run[r].handler = "api"
    /\ \E resp \in ServerAnswers(RequestOf(r, run[r].op, run[r].args)) :
         /\ lastCall' = CallAnswered(run[r].op, run[r].args, resp)
         /\ ResponseInterceptor(resp)
         /\ IF resp.kind = "ok"
            THEN /\ run' = [run EXCEPT ![r] = Null]
                 /\ inflight' = {q \in inflight : q.id # r}
            ELSE UNCHANGED <<run, inflight>>
    /\ lastRun' = Null
    /\ UIFrame
    /\ Step
    /\ UNCHANGED loginVars

\* the request of a direct call is answered
ServiceSettle(r) ==
    /\ run[r] # Null
    /\ run[r].handler = "api"
    /\ \E resp \in ServerAnswers(RequestOf(r, run[r].op, run[r].args)) :
         /\ lastCall' = CallAnswered(run[r].op, run[r].args, resp)
         /\ ResponseInterceptor(resp)
    /\ lastRun' = Null
    /\ run' = [run EXCEPT ![r] = Null]
    /\ inflight' = {q \in inflight : q.id # r}
    /\ UIFrame
    /\ Step
    /\ UNCHANGED loginVars

(***************************************************************************)
(* The callers of pdfService as one system                                 *)
(***************************************************************************)
Pages == {"dashboard", "home", "api"}

\* the pages are used by a user who has logged in: the state that
\* setSession("tokA", "alice") left at time 0
UIInit ==
    /\ now = 0
    /\ ticks = 0
    /\ localStorage =
          SetItem(EmptyMap, TOKEN_KEY,
                  JSONstringify([token |-> "tokA",
                                 expiryTime |-> SESSION_DURATION,
                                 user |-> "alice"]))
    /\ headers = SetItem(EmptyMap, "Authorization", Bearer("tokA"))
    /\ inflight = {}
    /\ lpc = [p \in Logins |-> "idle"]
    /\ ltoken = [p \in Logins |-> None]
    /\ stale = [p \in Logins |-> FALSE]
    /\ ctxUser = "alice"
    /\ lastOp = [op |-> "init", id |-> 0, ret |-> Null]
    /\ page \in Pages
    /\ run = [r \in Runs |-> Null]
    /\ lastCall = Null
    /\ lastRun = Null
    /\ selectedFile = None
    /\ selectedFiles = <<>>
    /\ currentAction = None
    /\ isProcessing = FALSE
    /\ error = Null
    /\ success = Null
    /\ openDialogs = {}
    /\ compressionLevel = MEDIUM
    /\ exportFormat = Fmt.docx
    /\ editOperations = <<>>
    /\ plagiarismResults = Null
    /\ events = 0
    /\ NotMounted

UINext ==
    \/ DropMain
    \/ DropMerge
    \/ DropConvert
    \/ PickerSelect
    \/ \E d \in {"picker", "compression", "edit", "export", "viewer"} : CloseDialog(d)
    \/ ChangeCompressionLevel
    \/ ChooseExportFormat
    \/ AddEditOperation
    \/ DeleteEditOperation
    \/ RemoveConvertFile
    \/ RemoveFile
    \/ ClearFiles
    \/ MoveFile
    \/ CloseSnackbar
    \/ ClosePlagiarismResults
    \/ CardClick
    \/ \E r \in Runs : ConfirmCompress(r)
    \/ \E r \in Runs : ConfirmEdit(r)
    \/ \E r \in Runs : ConfirmExport(r)
    \/ \E r \in Runs : ConvertButton(r)
    \/ \E r \in Runs : MergeButton(r)
    \/ \E r \in Runs : SettleProcess(r)
    \/ HomeOpenPicker
    \/ HomePickerClose
    \/ HomeSelect
    \/ \E r \in Runs : HomeAction(r)
    \/ \E r \in Runs : HomeSettle(r)
    \/ HomeCloseError
    \/ HomeCloseSuccess
    \/ \E r \in Runs : ServiceCall(r)
    \/ \E r \in Runs : ServiceSettle(r)

SpecUI == UIInit /\ [][UINext]_vars

(***************************************************************************)
(* PlagiarismResults and PDFViewer, rendered on their own                  *)
(***************************************************************************)
\* results.matches of a response with n matches
Matches(n) == [i \in 1..n |-> "match"]

\* a PlagiarismResponse: whether its error is set, and its matches
ResultsOf(err, n) == [error |-> err, matches |-> Matches(n)]

\* the results a parent may pass
ResultsProps ==
    {Null, ResultsOf(TRUE, 0)} \cup {ResultsOf(FALSE, n) : n \in 0..MaxMatches}

\* prev.includes(index)
IncludesIndex(prev, index) == \E k \in 1..Len(prev) : prev[k] = index

\* prev.filter(i => i !== index)
FilterOut(prev, index) == SelectSeq(prev, LAMBDA i : i # index)

\* an updater that shows one match at a time
handleExpandClick_accordion(prev, index) ==
    IF IncludesIndex(prev, index) THEN FilterOut(prev, index) ELSE <<index>>

\* the updater that handleExpandClick(index) hands to setExpandedItems
handleExpandClick(prev, index) ==
    IF IncludesIndex(prev, index)
    THEN FilterOut(prev, index)
    ELSE Append(prev, index)

\* the matches are rendered, each with its expand control
MatchesRendered == results # Null /\ ~results.error

\* what an event of a component leaves alone
CompFrame ==
    /\ UNCHANGED <<now, ticks, localStorage, headers, inflight, lpc, ltoken,
                   stale, ctxUser>>
    /\ UNCHANGED uiVars

\* a click on the expand control of the match at index
ExpandClick ==
    /\ MatchesRendered
    /\ \E index \in 0..(Len(results.matches) - 1) :
         /\ expandedItems' = handleExpandClick(expandedItems, index)
         /\ lastOp' = [op |-> "handleExpandClick", id |-> index, ret |-> Null]
    /\ UNCHANGED <<results, viewerFile, loadTask, numPages, pageNumber, loading>>
    /\ CompFrame

\* the parent renders PlagiarismResults again with other results
RenderResults ==
    /\ \E r \in ResultsProps \ {results} : results' = r
    /\ lastOp' = [op |-> "render", id |-> 0, ret |-> Null]
    /\ UNCHANGED <<expandedItems, viewerFile, loadTask, numPages, pageNumber,
                   loading>>
    /\ CompFrame

\* the files a parent may pass to PDFViewer, each named by the number of
\* pages pdf.js finds in it
Documents == 1..MaxPages

\* numPages || 1
NumPagesOr1 == IF numPages = 0 THEN 1 ELSE numPages

\* Math.min, Math.max
MathMin(a, b) == IF a < b THEN a ELSE b
MathMax(a, b) == IF a > b THEN a ELSE b

\* the updater that changePage(offset) hands to setPageNumber
changePage(prevPageNumber, offset) ==
    LET newPageNumber == prevPageNumber + offset
    IN  MathMin(MathMax(1, newPageNumber), NumPagesOr1)

\* disabled of the Previous and the Next button
PreviousDisabled == pageNumber <= 1
NextDisabled == pageNumber >= NumPagesOr1

\* onDocumentLoadSuccess({ numPages })
DocumentLoadSuccess ==
    /\ loadTask
    /\ numPages' = viewerFile
    /\ loading' = FALSE
    /\ loadTask' = FALSE
    /\ lastOp' = [op |-> "onDocumentLoadSuccess", id |-> viewerFile, ret |-> Null]
    /\ UNCHANGED <<results, expandedItems, viewerFile, pageNumber>>
    /\ CompFrame

\* onDocumentLoadError(error)
DocumentLoadError ==
    /\ loadTask
    /\ loading' = FALSE
    /\ loadTask' = FALSE
    /\ lastOp' = [op |-> "onDocumentLoadError", id |-> viewerFile, ret |-> Null]
    /\ UNCHANGED <<results, expandedItems, viewerFile, numPages, pageNumber>>
    /\ CompFrame

\* the parent renders PDFViewer again with another file: Document starts to
\* load it, the state of PDFViewer stays
RenderFile ==
    /\ \E f \in Documents \ {viewerFile} : viewerFile' = f
    /\ loadTask' = TRUE
    /\ lastOp' = [op |-> "render", id |-> 0, ret |-> Null]
    /\ UNCHANGED <<results, expandedItems, numPages, pageNumber, loading>>
    /\ CompFrame

\* a click on Previous
Previous ==
    /\ ~PreviousDisabled
    /\ pageNumber' = changePage(pageNumber, -1)
    /\ lastOp' = [op |-> "changePage", id |-> -1, ret |-> Null]
    /\ UNCHANGED <<results, expandedItems, viewerFile, loadTask, numPages,
                   loading>>
    /\ CompFrame

\* a click on Next
NextPage ==
    /\ ~NextDisabled
    /\ pageNumber' = changePage(pageNumber, 1)
    /\ lastOp' = [op |-> "changePage", id |-> 1, ret |-> Null]
    /\ UNCHANGED <<results, expandedItems, viewerFile, loadTask, numPages,
                   loading>>
    /\ CompFrame

\* both components have just been mounted
CompInit ==
    /\ now = 0
    /\ ticks = 0
    /\ localStorage = EmptyMap
    /\ headers = EmptyMap
    /\ inflight = {}
    /\ lpc = [p \in Logins |-> "idle"]
    /\ ltoken = [p \in Logins |-> None]
    /\ stale = [p \in Logins |-> FALSE]
    /\ ctxUser = None
    /\ lastOp = [op |-> "init", id |-> 0, ret |-> Null]
    /\ page = "components"
    /\ run = [r \in Runs |-> Null]
    /\ lastCall = Null
    /\ lastRun = Null
    /\ selectedFile = None
    /\ selectedFiles = <<>>
    /\ currentAction = None
    /\ isProcessing = FALSE
    /\ error = Null
    /\ success = Null
    /\ openDialogs = {}
    /\ compressionLevel = MEDIUM
    /\ exportFormat = Fmt.docx
    /\ editOperations = <<>>
    /\ plagiarismResults = Null
    /\ events = 0
    /\ results \in ResultsProps
    /\ expandedItems = <<>>
    /\ viewerFile \in Documents
    /\ loadTask = TRUE
    /\ numPages = 0
    /\ pageNumber = 1
    /\ loading = TRUE

CompNext ==
    \/ ExpandClick
    \/ RenderResults
    \/ DocumentLoadSuccess
    \/ DocumentLoadError
    \/ RenderFile
    \/ Previous
    \/ NextPage

SpecComponents == CompInit /\ [][CompNext]_vars

(***************************************************************************)
(* The merge section of the Dashboard, from a drop of several files        *)
(***************************************************************************)
\* the PDF files of a drop on the merge zone, in the order of the drop
DroppedNames == <<"pdfA", "pdfB", "pdfC">>
Dropped(n) == [i \in 1..n |-> DroppedNames[((i - 1) % Len(DroppedNames)) + 1]]

\* the Dashboard after its first event, a drop of n files on the merge zone
MergeInit ==
    /\ now = 0
    /\ ticks = 0
    /\ localStorage =
          SetItem(EmptyMap, TOKEN_KEY,
                  JSONstringify([token |-> "tokA",
                                 expiryTime |-> SESSION_DURATION,
                                 user |-> "alice"]))
    /\ headers = SetItem(EmptyMap, "Authorization", Bearer("tokA"))
    /\ inflight = {}
    /\ lpc = [p \in Logins |-> "idle"]
    /\ ltoken = [p \in Logins |-> None]
    /\ stale = [p \in Logins |-> FALSE]
    /\ ctxUser = "alice"
    /\ lastOp = [op |-> "init", id |-> 0, ret |-> Null]
    /\ page = "dashboard"
    /\ run = [r \in Runs |-> Null]
    /\ lastCall = Null
    /\ lastRun = Null
    /\ selectedFile = None
    /\ \E n \in 1..MaxDropped : selectedFiles = Dropped(n)
    /\ currentAction = "merge"
    /\ isProcessing = FALSE
    /\ error = Null
    /\ success = Msg("Added ${acceptedFiles.length} file(s) for merging")
    /\ openDialogs = {}
    /\ compressionLevel = MEDIUM
    /\ exportFormat = Fmt.docx
    /\ editOperations = <<>>
    /\ plagiarismResults = Null
    /\ events = 1
    /\ NotMounted

MergeNext ==
    \/ DropMain
    \/ DropMerge
    \/ RemoveFile
    \/ ClearFiles
    \/ MoveFile
    \/ CloseSnackbar
    \/ \E r \in Runs : MergeButton(r)
    \/ \E r \in Runs : SettleProcess(r)

SpecMerge == MergeInit /\ [][MergeNext]_vars

(***************************************************************************)
(* Properties of the session (SpecAuth)                                    *)
(***************************************************************************)
\* the session is authenticated: an entry is stored under the token key
Authenticated == TOKEN_KEY \in DOMAIN localStorage

\* the stored SessionData, read back
Stored == JSONparse(localStorage[TOKEN_KEY])

HeaderPresent == "Authorization" \in DOMAIN headers

\* C1: the session is anonymous or authenticated; it becomes authenticated
\* only by a successful login, and anonymous only by logout, by an expiry
\* that getSession detects, or by a failed token validation.
C1_SessionTransitions ==
    [][ /\ (~Authenticated /\ Authenticated') => lastOp'.op = "login"
        /\ (Authenticated /\ ~Authenticated') =>
              \/ lastOp'.op \in {"logout", "validateFailed"}
              \/ /\ lastOp'.op \in {"getSession", "isAuthenticated"}
                 /\ now > Stored.expiryTime ]_vars

\* a token validation failed while a session was stored and the user logged in
C1_Witness ==
    /\ lastOp.op = "validateFailed"
    /\ ~Authenticated
    /\ ctxUser # None

\* C2: a successful login leaves exactly one storage entry, under the token
\* key, holding the issued token, the user of /auth/me and the expiry
\* now + 86400 s; the entry gets its token and user only when /auth/me has
\* succeeded, and login returns that token and user.
C2_LoginStoresSession ==
    [][ /\ \A p \in Logins :
             (lpc[p] = "me" /\ lastOp'.op = "login" /\ lastOp'.id = p) =>
                /\ DOMAIN localStorage' = {TOKEN_KEY}
                /\ Stored' = [token |-> ltoken[p],
                              expiryTime |-> now' + 86400 * 1000,
                              user |-> lastOp'.ret.user]
                /\ lastOp'.ret.token = ltoken[p]
                /\ \E r \in inflight : /\ r.id = p
                                       /\ r.url = "/api/v1/auth/me"
                                       /\ r.authorization = Bearer(ltoken[p])
        /\ (Authenticated' /\ (~Authenticated
                                \/ Stored'.token # Stored.token
                                \/ Stored'.user # Stored.user))
              => lastOp'.op = "login" ]_vars

\* a login has just returned, some time after the page was loaded
C2_Witness ==
    /\ lastOp.op = "login"
    /\ Authenticated
    /\ now > 0
    /\ Stored.token = lastOp.ret.token

\* C3: a getSession that finds a stored session that has not expired returns
\* its token and user, rewrites the expiry to now + duration, sends no
\* request, and never lowers the stored expiry.
C3_RefreshOnRead ==
    [][ (lastOp'.op = "getSession" /\ Authenticated /\ now <= Stored.expiryTime) =>
           /\ lastOp'.ret = [token |-> Stored.token, user |-> Stored.user]
           /\ Authenticated'
           /\ Stored' = [Stored EXCEPT !.expiryTime = now + SESSION_DURATION]
           /\ Stored'.expiryTime >= Stored.expiryTime
           /\ inflight' = inflight ]_vars

\* a session stored at time 0 was read later and its expiry moved forward
C3_Witness ==
    /\ lastOp.op = "getSession"
    /\ lastOp.ret # Null
    /\ Authenticated
    /\ now > 0
    /\ Stored.expiryTime = now + SESSION_DURATION

\* C4: a getSession after the stored expiry deletes the entry, removes the
\* Authorization header and returns null; at the expiry itself the session
\* is still returned.
C4_DeleteOnExpiry ==
    [][ /\ (lastOp'.op = "getSession" /\ Authenticated /\ now > Stored.expiryTime) =>
              /\ ~Authenticated'
              /\ ~HeaderPresent'
              /\ lastOp'.ret = Null
        /\ (lastOp'.op = "getSession" /\ Authenticated /\ now = Stored.expiryTime) =>
              /\ lastOp'.ret = [token |-> Stored.token, user |-> Stored.user]
              /\ Authenticated' ]_vars

\* getSession returned null after the duration had passed, with no logout
C4_Witness ==
    /\ lastOp.op = "getSession"
    /\ lastOp.ret = Null
    /\ ~Authenticated
    /\ ~HeaderPresent
    /\ ctxUser # None
    /\ now > SESSION_DURATION

\* C5: after logout() the entry and the Authorization header stay absent
\* when a login call that was started before the logout completes.
C5_LogoutTerminal ==
    [][ \A p \in Logins :
          (stale[p] /\ lpc'[p] # lpc[p] /\ ~Authenticated) =>
             (~Authenticated' /\ ~HeaderPresent') ]_vars

(***************************************************************************)
(* Properties of the PDF operations and their callers (SpecUI)             *)
(***************************************************************************)
\* C6: every pdfService call whose request is answered settles in that step
\* and leaves the run's place; a settled call has either resolved with the
\* whole response.data or rejected with an Error, never both; a completed
\* run of Dashboard.handleProcessFile has raised exactly one of the success
\* and the error notification, and has downloaded only if it raised success.
C6_ExactlyOneResult ==
    [][ /\ \A r \in Runs :
              (run[r] # Null /\ run'[r] # run[r]) =>
                 /\ run'[r] = Null
                 /\ lastCall' # Null
                 /\ lastCall'.op = run[r].op
                 /\ lastCall'.args = run[r].args
        /\ lastCall' # Null =>
              \/ /\ lastCall'.outcome.kind = "resolved"
                 /\ lastCall'.sent
                 /\ lastCall'.outcome.value = DataOf(lastCall'.response)
                 /\ lastCall'.outcome.error = Null
              \/ /\ lastCall'.outcome.kind = "rejected"
                 /\ lastCall'.outcome.value = Null
                 /\ lastCall'.outcome.error # Null
        /\ (lastRun' # Null /\ lastRun'.handler = "process") =>
              /\ Cardinality(lastRun'.notified) = 1
              /\ lastRun'.downloads \in {0, 1}
              /\ lastRun'.downloads = 1 => lastRun'.notified = {"success"}
              /\ "success" \in lastRun'.notified => success' # Null
              /\ "error" \in lastRun'.notified => error' # Null ]_vars

\* C6 witness: a run of handleProcessFile whose request was answered has
\* completed with the success notification and one download.
C6_Witness ==
    /\ lastRun # Null
    /\ lastRun.handler = "process"
    /\ lastRun.notified = {"success"}
    /\ lastRun.downloads = 1
    /\ lastCall # Null
    /\ lastCall.sent
    /\ lastCall.outcome.kind = "resolved"

\* C7: a call of compress, merge, edit, preview, convert or export whose
\* request is answered 2xx with a content-type containing application/json
\* rejects with the detail of the body, or with the default message of the
\* operation when the detail is empty.
C7_JsonNeverSuccess ==
    ( /\ lastCall # Null
      /\ lastCall.op \in Ops \ {"checkPlagiarism"}
      /\ lastCall.sent
      /\ lastCall.response.kind = "ok"
      /\ IsJsonContentType(lastCall.response.contentType)
      /\ lastCall.response.json )
    => /\ lastCall.outcome.kind = "rejected"
       /\ lastCall.outcome.error =
             Msg(TextOr(lastCall.response.detail, DefaultMessage(lastCall.op)))

\* C8: a call of compress, merge, preview, convert or export whose request
\* fails with an error status and a Blob body that is the JSON {detail: d},
\* d not empty, rejects with the message d.
C8_DetailReachesUser ==
    ( /\ lastCall # Null
      /\ lastCall.op \in SniffingOps
      /\ lastCall.sent
      /\ lastCall.response.kind = "error"
      /\ lastCall.response.isBlob
      /\ lastCall.response.json
      /\ lastCall.response.detail # "" )
    => /\ lastCall.outcome.kind = "rejected"
       /\ lastCall.outcome.error = Msg(lastCall.response.detail)

C10_ConvertRejectsPdf ==
    [][ /\ \A q \in inflight' :
              q.url = Url("convert") => FileType(q.data.files[1]) # Mime.pdf
        /\ ( /\ lastCall' # Null
             /\ lastCall'.op = "convert"
             /\ lastCall'.args.file # None
             /\ FileType(lastCall'.args.file) = Mime.pdf )
           => /\ ~lastCall'.sent
              /\ lastCall'.outcome.kind = "rejected"
              /\ lastCall'.outcome.error = AlreadyPdf
        /\ \A file \in ConvertDrops :
              (FileType(file) = Mime.pdf /\ DropOnConvertZone(file)) =>
                 /\ error' = CannotConvertPdf
                 /\ selectedFile' = selectedFile
                 /\ currentAction' = currentAction ]_vars

(***************************************************************************)
(* Properties of the checks the operations make before they send           *)
(***************************************************************************)
\* the messages with which compress and export reject a file, as texts
MessageTexts ==
    {InvalidFileType.text, DefaultMessage("compress"),
     DefaultMessage("export")} \cup (Details \ {""})
    \cup {AxiosMessage(resp) : resp \in ServerResponses \ BinaryResponses}

\* the characters of a message
MessageChars(text) ==
    CASE text = "Invalid file type. Please select a PDF file." ->
        <<"I", "n", "v", "a", "l", "i", "d", " ", "f", "i", "l", "e", " ",
          "t", "y", "p", "e", ".", " ", "P", "l", "e", "a", "s", "e", " ",
          "s", "e", "l", "e", "c", "t", " ", "a", " ", "P", "D", "F", " ",
          "f", "i", "l", "e", ".">>
      [] text = "Failed to compress PDF" ->
        <<"F", "a", "i", "l", "e", "d", " ", "t", "o", " ", "c", "o", "m",
          "p", "r", "e", "s", "s", " ", "P", "D", "F">>
      [] text = "Failed to export PDF" ->
        <<"F", "a", "i", "l", "e", "d", " ", "t", "o", " ", "e", "x", "p",
          "o", "r", "t", " ", "P", "D", "F">>
      [] text = "Invalid request" ->
        <<"I", "n", "v", "a", "l", "i", "d", " ", "r", "e", "q", "u", "e",
          "s", "t">>
      [] text = "Network Error" ->
        <<"N", "e", "t", "w", "o", "r", "k", " ", "E", "r", "r", "o", "r">>
      [] text = "Request failed with status code 400" ->
        <<"R", "e", "q", "u", "e", "s", "t", " ", "f", "a", "i", "l", "e",
          "d", " ", "w", "i", "t", "h", " ", "s", "t", "a", "t", "u", "s",
          " ", "c", "o", "d", "e", " ", "4", "0", "0">>
      [] text = "Request failed with status code 401" ->
        <<"R", "e", "q", "u", "e", "s", "t", " ", "f", "a", "i", "l", "e",
          "d", " ", "w", "i", "t", "h", " ", "s", "t", "a", "t", "u", "s",
          " ", "c", "o", "d", "e", " ", "4", "0", "1">>
      [] text = "Request failed with status code 502" ->
        <<"R", "e", "q", "u", "e", "s", "t", " ", "f", "a", "i", "l", "e",
          "d", " ", "w", "i", "t", "h", " ", "s", "t", "a", "t", "u", "s",
          " ", "c", "o", "d", "e", " ", "5", "0", "2">>

\* the messages that mention PDF, in either case
PdfMessages ==
    {text \in MessageTexts : Includes(ToLowerCase(MessageChars(text)), TextPdf)}

\* C11: a call of compress or export with a file whose type is not
\* application/pdf is rejected before any request is sent, with an error
\* whose message mentions PDF, and no request in flight to /pdf/compress or
\* /pdf/export carries a file whose type is not application/pdf
C11_NonPdfRejected ==
    /\ (/\ lastCall # Null
        /\ lastCall.op \in {"compress", "export"}
        /\ lastCall.args.file # None
        /\ FileType(lastCall.args.file) # Mime.pdf)
       => /\ ~lastCall.sent
          /\ lastCall.outcome.kind = "rejected"
          /\ lastCall.outcome.error.text \in PdfMessages
    /\ \A q \in inflight :
          q.url \in {Url("compress"), Url("export")}
             => \A i \in 1..Len(q.data.files) :
                    FileType(q.data.files[i]) = Mime.pdf

PdfRequest(q) == q.url \in {Url(op) : op \in Ops}

\* C16: a request is sent only in the step in which an operation of
\* pdfService or a login is invoked (for login, also GET /auth/me in the step
\* in which the token arrives), one request at a time; the step in which an
\* operation gets its answer, or is rejected by its own checks, ends the
\* operation, takes its request out of flight and sends nothing, and a call
\* rejected by its own checks has sent nothing at all
C16_NoRetry ==
    [][LET new == inflight' \ inflight
       IN  /\ Cardinality(new) <= 1
           /\ \A q \in new :
                IF PdfRequest(q)
                THEN /\ run[q.id] = Null
                     /\ run'[q.id] # Null
                     /\ Url(run'[q.id].op) = q.url
                     /\ lastCall' = Null
                ELSE \/ /\ q.url = "/api/v1/auth/token"
                        /\ lpc[q.id] = "idle"
                        /\ lpc'[q.id] = "token"
                     \/ /\ q.url = "/api/v1/auth/me"
                        /\ lpc[q.id] = "token"
                        /\ lpc'[q.id] = "me"
           /\ lastCall' # Null
              => /\ new = {}
                 /\ IF lastCall'.sent
                    THEN \E r \in Runs :
                            /\ run[r] # Null
                            /\ run' = [run EXCEPT ![r] = Null]
                            /\ Cardinality({q \in inflight : q.id = r}) = 1
                            /\ inflight' = {q \in inflight : q.id # r}
                    ELSE inflight' = inflight /\ run' = run
           /\ \A p \in Logins :
                (lpc[p] # "idle" /\ lpc'[p] = "idle")
                => /\ new = {}
                   /\ \A q \in inflight' : PdfRequest(q) \/ q.id # p]_vars

\* an operation has failed after its request was sent, and nothing is in
\* flight
C16_Witness ==
    /\ lastCall # Null
    /\ lastCall.sent
    /\ lastCall.outcome.kind = "rejected"
    /\ inflight = {}
    /\ \A r \in Runs : run[r] = Null

\* C17: every request to /pdf/merge carries the files and a merge_order,
\* and a merge whose merge_order holds an index outside 0..(number of
\* files - 1) is answered 400 and does not resolve
C17_MergeOrder ==
    /\ \A q \in inflight :
          q.url = Url("merge")
             => /\ "files" \in q.data.names
                /\ "merge_order" \in q.data.names
                /\ q.data.merge_order # Undefined
    /\ (/\ lastCall # Null
        /\ lastCall.op = "merge"
        /\ lastCall.sent)
       => LET data == FormDataOf("merge", lastCall.args)
          IN  (/\ data.merge_order # Undefined
               /\ \E i \in 1..Len(data.merge_order) :
                     data.merge_order[i] \notin 0..(Len(data.files) - 1)
               /\ lastCall.response.kind # "network"
               /\ ~Unauthorized(lastCall.response))
              => /\ lastCall.response.status = 400
                 /\ lastCall.outcome.kind = "rejected"

CallMade ==
    IF lastCall' # Null /\ ~lastCall'.sent
    THEN [op |-> lastCall'.op, args |-> lastCall'.args]
    ELSE IF \E r \in Runs : run[r] = Null /\ run'[r] # Null
         THEN LET r == CHOOSE q \in Runs : run[q] = Null /\ run'[q] # Null
              IN  [op |-> run'[r].op, args |-> run'[r].args]
         ELSE Null

\* C20: in the Dashboard, with file(s) selected, the confirm button of the
\* compression dialog calls pdfService.compress once with the selected file
\* and the compression level, and the Merge button calls pdfService.merge
\* once with the selected files; and when the call of a compress or merge
\* run resolves, the blob it returned is handed to one object URL that is
\* created, clicked and then revoked, and no error notification is shown
C20_DashboardAction ==
    [][/\ (\E r \in Runs : ConfirmCompress(r))
          => /\ CallMade # Null
             /\ CallMade.op = "compress"
             /\ CallMade.args.file = selectedFile
             /\ CallMade.args.file # None
             /\ CallMade.args.level = compressionLevel
             /\ Cardinality(inflight' \ inflight) <= 1
       /\ (\E r \in Runs : MergeButton(r))
          => /\ CallMade # Null
             /\ CallMade.op = "merge"
             /\ CallMade.args.files = selectedFiles
             /\ Cardinality(inflight' \ inflight) <= 1
       /\ (/\ lastRun' # Null
           /\ lastRun'.handler = "process"
           /\ lastRun'.action \in {"compress", "merge"}
           /\ lastCall' # Null
           /\ lastCall'.outcome.kind = "resolved")
          => /\ lastRun'.downloads = 1
             /\ Len(lastRun'.dom) = 3
             /\ lastRun'.dom[1].call = "createObjectURL"
             /\ lastRun'.dom[1].arg = lastCall'.outcome.value
             /\ lastRun'.dom[2].call = "click"
             /\ lastRun'.dom[3].call = "revokeObjectURL"
             /\ lastRun'.dom[3].arg = lastRun'.dom[2].arg
             /\ "error" \notin lastRun'.notified
             /\ error' = Null]_vars

(***************************************************************************)
(* Dashboard: errors, notifications, concurrency, export formats           *)
(***************************************************************************)
\* C21: whenever the pdfService call that a run of handleProcessFile made
\* rejects, the error notification of the Dashboard reads
\* 'Failed to process PDF', the run downloads nothing and it does not
\* report success
C21_FailureAlert ==
    [][(/\ lastRun' # Null
        /\ lastRun'.handler = "process"
        /\ lastRun'.called
        /\ lastCall' # Null
        /\ lastCall'.outcome.kind = "rejected")
       => /\ error' # Null
          /\ error'.text = FailedToProcess
          /\ lastRun'.downloads = 0
          /\ lastRun'.dom = <<>>
          /\ "success" \notin lastRun'.notified]_vars

(***************************************************************************)
(* Properties of PlagiarismResults and PDFViewer (SpecComponents)          *)
(***************************************************************************)
\* the matches that are expanded
ExpandedSet(items) == {items[k] : k \in 1..Len(items)}

\* the indices a click may carry
MatchIndices == 0..(MaxMatches - 1)

\* C22: when PlagiarismResults is mounted no match is expanded; a click on
\* the expand control of match i makes i expanded if it was collapsed and
\* collapsed if it was expanded, and leaves every other match as it was;
\* and in every state two clicks on the same control give back the set of
\* expanded matches
C22_ToggleMatch ==
    /\ expandedItems = <<>>
    /\ [][/\ lastOp'.op = "handleExpandClick"
             => /\ IncludesIndex(expandedItems', lastOp'.id)
                     = ~IncludesIndex(expandedItems, lastOp'.id)
                /\ \A j \in MatchIndices \ {lastOp'.id} :
                     IncludesIndex(expandedItems', j)
                       = IncludesIndex(expandedItems, j)
          /\ \A i \in MatchIndices :
               ExpandedSet(handleExpandClick(
                              handleExpandClick(expandedItems, i), i))
                 = ExpandedSet(expandedItems)
          /\ expandedItems' # expandedItems
             => lastOp'.op = "handleExpandClick"]_vars

\* C22 witness: match 1 was expanded, then match 0, and a click has just
\* collapsed match 1 again
C22_Witness ==
    /\ lastOp.op = "handleExpandClick"
    /\ lastOp.id = 1
    /\ expandedItems = <<0>>

\* C29: in PDFViewer, after any document loads and page changes, the page
\* shown lies between 1 and max(numPages, 1)
C29_PageInRange ==
    /\ 1 <= pageNumber
    /\ pageNumber <= MathMax(numPages, 1)

(***************************************************************************)
(* Invariants of the session and of the AuthContext (SpecAuth)             *)
(***************************************************************************)
\* C23: after any sequence of login, getSession, isAuthenticated and
\* logout that starts without a session, the default Authorization header
\* is present exactly when the storage entry is, and it is then 'Bearer '
\* followed by the stored token
C23_HeaderMatchesStorage ==
    /\ HeaderPresent <=> Authenticated
    /\ Authenticated => headers["Authorization"] = Bearer(Stored.token)

\* C23 witness: getSession has just refreshed a stored session whose token
\* is tokB, and the header carries that token
C23_Witness ==
    /\ lastOp.op = "getSession"
    /\ Authenticated
    /\ Stored.token = "tokB"
    /\ HeaderPresent
    /\ headers["Authorization"] = Bearer("tokB")

\* the user of the AuthContext, when there is one, is the user of the
\* session that the storage holds
ContextBacked ==
    ctxUser # None => (Authenticated /\ Stored.user = ctxUser)

\* the steps of AuthProvider.login and AuthProvider.logout
ProviderOps ==
    {"loginCall", "tokenIssued", "login", "loginFailed", "validateFailed",
     "logout"}

\* C24: no step of a login attempt, successful or failed, and no logout
\* leaves the AuthContext with a user while the storage holds no session of
\* that user: when the context was backed by the storage before the step it
\* is backed by it after the step
C24_ContextBacked ==
    [][(lastOp'.op \in ProviderOps /\ ContextBacked) => ContextBacked']_vars

\* the runs of handleProcessFile whose request is outstanding
ProcessRuns == {r \in Runs : run[r] # Null /\ run[r].handler = "process"}

\* C25: in the Dashboard at most one run of handleProcessFile is in flight,
\* and isProcessing is true exactly while a request is outstanding
C25_OneInFlight ==
    page = "dashboard"
    => /\ Cardinality(ProcessRuns) <= 1
       /\ isProcessing <=> ProcessRuns # {}

\* severity and children of the Alert in the Snackbar of the Dashboard
AlertSeverity == IF success # Null THEN "success" ELSE "error"
AlertText == IF error # Null THEN error ELSE success

FormatSupported(format) == ArrayIncludes(supportedFormats, ToLowerCase(format))

\* C27: the export format of the Dashboard, from its initial value on, and
\* every format the export dialog offers pass the format check of
\* pdfService.export, and an export started from the dialog is not
\* rejected by that check
C27_ExportFormatSupported ==
    [][/\ page = "dashboard"
          => /\ FormatSupported(exportFormat)
             /\ \A format \in ExportOptions : FormatSupported(format)
       /\ ((\E r \in Runs : ConfirmExport(r))
           /\ currentAction = "export"
           /\ lastCall' # Null
           /\ ~lastCall'.sent)
          => lastCall'.outcome.error # UnsupportedFormat(exportFormat)]_vars

(***************************************************************************)
(* The order of the files to merge (SpecMerge)                             *)
(***************************************************************************)
\* the number of times the file f occurs in the list
Count(list, f) == Cardinality({i \in 1..Len(list) : list[i] = f})

\* the list without its element at index, indices from 0
Without(list, index) ==
    [i \in 1..(Len(list) - 1) |-> IF i <= index THEN list[i] ELSE list[i + 1]]

\* the files of the lists before and after a step
ListedFiles == ExpandedSet(selectedFiles) \cup ExpandedSet(selectedFiles')

\* a merge request that the Dashboard sends in this step carries the files
\* in the order of selectedFiles
SentInListOrder ==
    \A q \in inflight' \ inflight :
        (page = "dashboard" /\ q.url = Url("merge"))
        => q.data.files = selectedFiles

\* the step relocates exactly one file: the list keeps its length, a file
\* goes from one index of the list to another index of the list, and the
\* other files keep their order
RelocatesOne ==
    /\ Len(selectedFiles') = Len(selectedFiles)
    /\ \E fromIndex, toIndex \in 0..(Len(selectedFiles) - 1) :
         /\ fromIndex # toIndex
         /\ selectedFiles'[toIndex + 1] = selectedFiles[fromIndex + 1]
         /\ Without(selectedFiles', toIndex) = Without(selectedFiles, fromIndex)

\* no occurrence of a file leaves the list
NoFileLost ==
    \A f \in ListedFiles : Count(selectedFiles', f) >= Count(selectedFiles, f)

\* no occurrence of a file joins the list
NoFileGained ==
    \A f \in ListedFiles : Count(selectedFiles', f) <= Count(selectedFiles, f)

\* C28 as stated: merge sends the files in the order of selectedFiles; a
\* file leaves the list only when the user removes it and joins it only
\* when the user adds it, so the list is a permutation of the files added
\* and not removed; and a move by the up and down controls relocates
\* exactly one file within the index range, keeping the length and the
\* order of the others
C28_ListIsWhatWasAdded ==
    [][/\ SentInListOrder
       /\ MoveFile => RelocatesOne
       /\ ~(RemoveFile \/ ClearFiles) => NoFileLost
       /\ ~(DropMain \/ DropMerge) => NoFileGained]_vars

\* C28, the part that holds: as above, but for a drop of several files on
\* the main drop zone, which puts the dropped files in the place of the list
C28_ListUnlessReplaced ==
    [][/\ SentInListOrder
       /\ MoveFile => RelocatesOne
       /\ ~(RemoveFile \/ ClearFiles \/ DropMain) => NoFileLost
       /\ ~(DropMain \/ DropMerge) => NoFileGained]_vars


====
